---------------------------- MODULE Spec2Model ----------------------------
(***************************************************************************)
(* The CSS value-grammar matcher of package cssvalue: Match and the        *)
(* matcher type with its backtracking match methods, over Term trees and   *)
(* a Context of named sub-grammars.                                        *)
(*                                                                         *)
(* Strings that the code slices or compares character-wise (token values,  *)
(* keyword and literal texts, function names) are sequences of             *)
(* one-character strings; names used only as map keys or capture names     *)
(* are strings.  Token types carry the names of the css package's          *)
(* constants.                                                              *)
(***************************************************************************)
EXTENDS Integers, Sequences, FiniteSets, TLC

(***************************************************************************)
(* Bounds of the model.                                                    *)
(***************************************************************************)
\* Longest value-token stream drawn over a scenario's alphabet.
MaxLen == 5

\* Most chunks of a family's alphabet that make up a grammar text.
MaxChunks == 3

\* Longest value-token stream drawn for each of two concurrent calls.
MaxShared == 2

(***************************************************************************)
(* Program constants.                                                      *)
(***************************************************************************)
\* math.MaxInt64, the "unbounded" Repeat.Max; saturated to the 32-bit
\* integers of TLC (repetition counts never come near it).
MaxInt64 == 2147483647

(***************************************************************************)
(* Term model.  Every Term is a record of one shape; `kind` is the Go type.*)
(***************************************************************************)
\* A float64 that strconv.ParseFloat made of a decimal text: digits * 10^exp,
\* negated if neg.
Float(neg, digits, exp) == [neg |-> neg, digits |-> digits, exp |-> exp]

\* &Range{Min: min, Max: max}
Range(min, max) == [set |-> TRUE, min |-> min, max |-> max]

\* The nil *Range.
NoRange == [set |-> FALSE, min |-> Float(FALSE, 0, 0), max |-> Float(FALSE, 0, 0)]

NoTerm ==
  [kind |-> "nil", name |-> "", text |-> <<>>, ops |-> <<>>,
   min |-> 0, max |-> 0, commas |-> FALSE, required |-> FALSE,
   range |-> NoRange]

Keyword(text) == [NoTerm EXCEPT !.kind = "Keyword", !.text = text]

BasicType(name) == [NoTerm EXCEPT !.kind = "BasicType", !.name = name]

\* &BasicType{Name: name, Range: r}
RangedType(name, r) == [BasicType(name) EXCEPT !.range = r]

PropertyType(name) == [NoTerm EXCEPT !.kind = "PropertyType", !.name = name]

NonTerminal(name) == [NoTerm EXCEPT !.kind = "NonTerminal", !.name = name]

Literal(text) == [NoTerm EXCEPT !.kind = "Literal", !.text = text]

SeqTerm(name, operands) == [NoTerm EXCEPT !.kind = "Seq", !.name = name, !.ops = operands]

AllOf(operands) == [NoTerm EXCEPT !.kind = "AllOf", !.ops = operands]

AnyOf(operands) == [NoTerm EXCEPT !.kind = "AnyOf", !.ops = operands]

OneOf(operands) == [NoTerm EXCEPT !.kind = "OneOf", !.ops = operands]

Group(name, required, operand) ==
  [NoTerm EXCEPT !.kind = "Group", !.name = name, !.required = required,
                 !.ops = <<operand>>]

ZeroOrMore(operand) == [NoTerm EXCEPT !.kind = "ZeroOrMore", !.ops = <<operand>>]

OneOrMore(operand) == [NoTerm EXCEPT !.kind = "OneOrMore", !.ops = <<operand>>]

ZeroOrOne(operand) == [NoTerm EXCEPT !.kind = "ZeroOrOne", !.ops = <<operand>>]

Repeat(min, max, commas, operand) ==
  [NoTerm EXCEPT !.kind = "Repeat", !.min = min, !.max = max,
                 !.commas = commas, !.ops = <<operand>>]

\* The single operand of a Group or a multiplier node (its Operand field).
Operand(t) == t.ops[1]

\* type Function struct { Params []Term; Type *BasicType }
Function(params, type) == [params |-> params, type |-> type]

\* type Token struct { Type css.TokenType; Value string }
Token(type, value) == [type |-> type, value |-> value]

\* type Capture struct { Name string; Values []Token }
Capture(name, values) == [name |-> name, values |-> values]

(***************************************************************************)
(* The value tokenizer (css.Lexer), used only through Next(): it yields    *)
(* the tokens of the stream in order and ErrorToken once it is exhausted.  *)
(***************************************************************************)
NewLexer(r) == [input |-> r, pos |-> 0]

LexerNext(l) ==
  IF l.pos < Len(l.input)
    THEN [tok |-> l.input[l.pos + 1], lexer |-> [l EXCEPT !.pos = @ + 1]]
    ELSE [tok |-> Token("ErrorToken", <<>>), lexer |-> l]

(***************************************************************************)
(* The matcher.  Fields context, buffer, offset, lexer, result, captures   *)
(* are the struct's.  `fault` is the panic in flight ("" when none): a     *)
(* panic unwinds the Go stack, here every later operation is skipped.      *)
(* `calls` and `depth` observe the match calls made: one entry per         *)
(* completed match(t), in order of completion, with the matcher at entry   *)
(* and at return; they are never read by the matcher itself.  `stored` is  *)
(* the memory of the Term tree as the call finds and leaves it: the        *)
(* Operands arrays that were written since the tree was built, by term.    *)
(***************************************************************************)
NewMatcher(ctx, r) ==
  [context |-> ctx, buffer |-> <<>>, offset |-> 0, lexer |-> NewLexer(r),
   result |-> <<>>, captures |-> <<>>,
   fault |-> "", calls |-> <<>>, depth |-> 0, stored |-> <<>>]

Panic(m, what) == [m EXCEPT !.fault = what]

\* A loop `for m.match(...) {}` whose body has just matched without moving
\* the offset: what match returns depends on the offset, the stream, the
\* term and the context only, so every later iteration matches the same way
\* and the loop never ends.
Forever == "the loop never ends"

Stalled(m, r) == r.ok /\ r.m.fault = "" /\ r.m.offset = m.offset

\* What an entry of m.calls keeps of a matcher: the fields match can change.
Observed(m) ==
  [buffer |-> m.buffer, offset |-> m.offset, pos |-> m.lexer.pos,
   result |-> m.result, captures |-> m.captures]

\* With(v, LAMBDA x : e) is e with x bound to the value v: a local
\* variable of the code that is assigned once and read several times.
With(v, F(_)) == F(v)

\* A peek that buffers the whitespace tokens too.
RECURSIVE peekKeepingSpace(_, _)
peekKeepingSpace(m, n) ==
  IF m.fault # "" THEN [m |-> m, tok |-> Token("ErrorToken", <<>>)]
  ELSE IF Len(m.buffer) - m.offset < n
    THEN With(LexerNext(m.lexer), LAMBDA nx :
           IF nx.tok.type = "ErrorToken"
             THEN [m |-> [m EXCEPT !.lexer = nx.lexer], tok |-> nx.tok]
             ELSE peekKeepingSpace([m EXCEPT !.lexer = nx.lexer,
                                             !.buffer = Append(@, nx.tok)], n))
  ELSE [m |-> m, tok |-> m.buffer[m.offset + n]]

RECURSIVE peek(_, _)
peek(m, n) ==
  IF m.fault # "" THEN [m |-> m, tok |-> Token("ErrorToken", <<>>)]
  ELSE IF m.offset > Len(m.buffer)
    THEN [m |-> Panic(m, "slice bounds out of range"),
          tok |-> Token("ErrorToken", <<>>)]
  ELSE IF Len(m.buffer) - m.offset < n
    THEN With(LexerNext(m.lexer), LAMBDA nx :
           IF nx.tok.type = "ErrorToken"
             THEN [m |-> [m EXCEPT !.lexer = nx.lexer], tok |-> nx.tok]
             ELSE IF nx.tok.type # "WhitespaceToken"
               THEN peek([m EXCEPT !.lexer = nx.lexer,
                                   !.buffer = Append(@, nx.tok)], n)
               ELSE peek([m EXCEPT !.lexer = nx.lexer], n))
  ELSE [m |-> m, tok |-> m.buffer[m.offset + n]]

\* A chomp that moves the offset and forgets to record the token.
chompUnrecorded(m) ==
  IF m.fault # "" THEN m
  ELSE IF Len(m.buffer) = 0 THEN Panic(m, "buffer underflow")
  ELSE IF m.offset >= Len(m.buffer) THEN Panic(m, "index out of range")
  ELSE [m EXCEPT !.offset = @ + 1]

chomp(m) ==
  IF m.fault # "" THEN m
  ELSE IF Len(m.buffer) = 0 THEN Panic(m, "buffer underflow")
  ELSE IF m.offset >= Len(m.buffer) THEN Panic(m, "index out of range")
  ELSE [m EXCEPT !.result = Append(@, m.buffer[m.offset + 1]),
                 !.offset = @ + 1]

\* A rollback that rewinds the offset and forgets result and captures.
rollbackOffsetOnly(m, so, sr, sc) == [m EXCEPT !.offset = so]

\* m.offset, m.result, m.captures = so, m.result[:sr], m.captures[:sc]
rollback(m, so, sr, sc) ==
  [m EXCEPT !.offset = so,
            !.result = SubSeq(@, 1, sr),
            !.captures = SubSeq(@, 1, sc)]

\* A capture put in front of the list instead of appended.
capturePrepended(m, name, c) ==
  [m EXCEPT !.captures =
     <<Capture(name, SubSeq(m.result, c + 1, Len(m.result)))>> \o @]

\* m.captures = append(m.captures, Capture{Name: name, Values: m.result[c:]})
capture(m, name, c) ==
  [m EXCEPT !.captures =
     Append(@, Capture(name, SubSeq(m.result, c + 1, Len(m.result))))]

\* The outcome of a match method: the bool it returns and the matcher after.
Ret(ok, m) == [ok |-> ok, m |-> m]

\* next := m.peek(1); if next.Type is none of types { return false };
\* m.chomp(); return true
matchToken(m, types) ==
  With(peek(m, 1), LAMBDA next :
    IF next.tok.type \notin types
      THEN Ret(FALSE, next.m)
      ELSE Ret(TRUE, chomp(next.m)))

matchKeyword(m, t) ==
  With(peek(m, 1), LAMBDA next :
    IF next.tok.type # "IdentToken" \/ next.tok.value # t.text
      THEN Ret(FALSE, next.m)
      ELSE Ret(TRUE, chomp(next.m)))

\* <number [0,inf]> [ / <number [0,inf]> ]?
ratioTerm ==
  SeqTerm("", << BasicType("number"),
                 ZeroOrOne(Group("", FALSE,
                   SeqTerm("", << Literal(<<"/">>), BasicType("number") >>))) >>)

\* The switch of matchLiteral: the token type a literal's text stands for.
literalTokenType(t) ==
  CASE t.text = <<":">> -> "ColonToken"
    [] t.text = <<"{">> -> "LeftBraceToken"
    [] t.text = <<"[">> -> "LeftBracketToken"
    [] t.text = <<"(">> -> "LeftParenthesisToken"
    [] t.text = <<"}">> -> "RightBraceToken"
    [] t.text = <<"]">> -> "RightBracketToken"
    [] t.text = <<")">> -> "RightParenthesisToken"
    [] t.text = <<";">> -> "SemicolonToken"
    [] OTHER -> "DelimToken"

matchLiteral(m, t) ==
  With(peek(m, 1), LAMBDA next :
    IF next.tok.type # literalTokenType(t) \/ next.tok.value # t.text
      THEN Ret(FALSE, next.m)
      ELSE Ret(TRUE, chomp(next.m)))

RECURSIVE match(_, _)
RECURSIVE matchSeqFrom(_, _, _)
RECURSIVE matchAllOfPending(_, _, _)
RECURSIVE matchAllOfScan(_, _, _, _)
RECURSIVE matchOneOfFrom(_, _, _)
RECURSIVE matchAnyOfRounds(_, _)
RECURSIVE matchWhile(_, _)
RECURSIVE matchRepeatFrom(_, _, _)
RECURSIVE matchFunctionParams(_, _, _, _)

\* A matchFunction that consumes whatever follows a parameter that is not
\* the last, comma or not.
acceptCommaUnchecked(m, fn, i) ==
  IF i < Len(fn.params) THEN chomp(peek(m, 1).m) ELSE m

\* if i < len(fn.Params)-1 && m.peek(1).Type == css.CommaToken { m.chomp() }
\* (i counts from 1 here; the peek happens only when the first test holds)
acceptComma(m, fn, i) ==
  IF i < Len(fn.params)
    THEN With(peek(m, 1), LAMBDA next :
           IF next.tok.type = "CommaToken" THEN chomp(next.m) ELSE next.m)
    ELSE m

\* The loop of matchFunction over fn.Params, from parameter i on; s is the
\* offset saved on entry.
matchFunctionParams(m, fn, i, s) ==
  IF i > Len(fn.params) THEN Ret(TRUE, m)
  ELSE With(match(m, fn.params[i]), LAMBDA r :
         IF r.ok
           THEN matchFunctionParams(acceptComma(r.m, fn, i), fn, i + 1, s)
           ELSE Ret(FALSE, [r.m EXCEPT !.offset = s]))

\* token.Value[:len(token.Value)-1]
functionName(value) == SubSeq(value, 1, Len(value) - 1)

\* What matchFunction returns: (fn, true), or (nil, false).
FunctionRet(ok, fn, m) == [ok |-> ok, fn |-> fn, m |-> m]

\* The tail of matchFunction, after the parameters: the closing parenthesis.
matchFunctionClose(m, fn, s) ==
  With(peek(m, 1), LAMBDA next :
    IF next.tok.type = "RightParenthesisToken"
      THEN FunctionRet(TRUE, fn, chomp(next.m))
      ELSE FunctionRet(FALSE, Function(<<>>, NoTerm),
                       [next.m EXCEPT !.offset = s]))

matchFunction(m) ==
  With(peek(m, 1), LAMBDA token :
    IF functionName(token.tok.value) \notin DOMAIN m.context.Functions
      THEN FunctionRet(FALSE, Function(<<>>, NoTerm), token.m)
      ELSE With(matchFunctionParams(
                  chomp(token.m),
                  m.context.Functions[functionName(token.tok.value)],
                  1, m.offset), LAMBDA a :
             IF a.ok
               THEN matchFunctionClose(
                      a.m, m.context.Functions[functionName(token.tok.value)],
                      m.offset)
               ELSE FunctionRet(FALSE, Function(<<>>, NoTerm), a.m)))

\* A function application accepted whatever the function returns.
functionReturnsAny(f, t) == TRUE

\* return f.Type.Name == t.Name
functionReturns(f, t) == f.type.name = t.name

\* The switch of matchBasicType on t.Name.
matchBasicTypeToken(m, t) ==
  CASE t.name \in {"custom-ident", "dashed-ident"} ->
         matchToken(m, {"IdentToken"})
    [] t.name = "string" -> matchToken(m, {"StringToken"})
    [] t.name = "url" -> matchToken(m, {"URLToken"})
    [] t.name = "color" -> matchToken(m, {"HashToken", "IdentToken"})
    [] t.name \in {"integer", "number"} -> matchToken(m, {"NumberToken"})
    [] t.name = "percentage" -> matchToken(m, {"PercentageToken"})
    [] t.name \in {"dimension", "length", "angle", "time", "frequency",
                   "resolution"} -> matchToken(m, {"DimensionToken"})
    [] t.name = "ratio" -> match(m, ratioTerm)
    [] OTHER -> Ret(FALSE, Panic(m, "unexpected basic type"))

matchBasicType(m, t) ==
  With(peek(m, 1), LAMBDA next :
    IF next.tok.type = "FunctionToken"
      THEN With(matchFunction(next.m), LAMBDA f :
             IF f.ok THEN Ret(functionReturns(f.fn, t), f.m)
             ELSE Ret(FALSE, f.m))
      ELSE matchBasicTypeToken(next.m, t))

matchPropertyType(m, t) ==
  IF t.name \in DOMAIN m.context.Properties
    THEN With(match(m, m.context.Properties[t.name]), LAMBDA r :
           IF r.ok THEN Ret(FALSE, capture(r.m, t.name, Len(m.result)))
           ELSE Ret(FALSE, r.m))
    ELSE Ret(FALSE, m)

\* A matchNonTerminal that takes c := len(m.result) after the bound term
\* has matched, not before.
matchNonTerminalLateMark(m, t) ==
  IF t.name \in DOMAIN m.context.NonTerminals
    THEN With(match(m, m.context.NonTerminals[t.name]), LAMBDA r :
           IF r.ok THEN Ret(TRUE, capture(r.m, t.name, Len(r.m.result)))
           ELSE Ret(FALSE, r.m))
    ELSE Ret(FALSE, m)

matchNonTerminal(m, t) ==
  IF t.name \in DOMAIN m.context.NonTerminals
    THEN With(match(m, m.context.NonTerminals[t.name]), LAMBDA r :
           IF r.ok THEN Ret(TRUE, capture(r.m, t.name, Len(m.result)))
           ELSE Ret(FALSE, r.m))
    ELSE Ret(FALSE, m)

\* The loop of matchSeq over t.Operands, from operand i on.
matchSeqFrom(m, operands, i) ==
  IF i > Len(operands) THEN Ret(TRUE, m)
  ELSE With(match(m, operands[i]), LAMBDA r :
         IF r.ok THEN matchSeqFrom(r.m, operands, i + 1)
         ELSE Ret(FALSE, r.m))

matchSeq(m, t) ==
  With(matchSeqFrom(m, t.ops, 1), LAMBDA r :
    IF r.ok
      THEN IF t.name # "" THEN Ret(TRUE, capture(r.m, t.name, Len(m.result)))
           ELSE Ret(TRUE, r.m)
      ELSE Ret(FALSE, r.m))

\* A []Term: its elements, and whether its backing array is the one of
\* the Term's own Operands field or an array of its own.
Slice(elems, shared) == [elems |-> elems, shared |-> shared]

\* t.Operands, as the memory holds it.
Operands(m, t) == IF t \in DOMAIN m.stored THEN m.stored[t] ELSE t.ops

\* pending := t.Operands: the slice itself, on the Term's array.
sharedOperands(m, t) == Slice(Operands(m, t), TRUE)

\* append([]Term{}, t.Operands...): the elements, in a new array.
copyOperands(m, t) == Slice(Operands(m, t), FALSE)

\* A removal that drops the first pending operand, whichever matched.
removeFirst(pending, i) == Tail(pending)

\* The elements of append(pending[:i], pending[i+1:]...)
removeAt(pending, i) ==
  SubSeq(pending, 1, i - 1) \o SubSeq(pending, i + 1, Len(pending))

\* What append(pending[:i], pending[i+1:]...) writes: the elements after
\* the i-th move down one place in pending's backing array, which is
\* memory of the Term t when the slice is on t.Operands.
shiftDown(m, t, pending, i) ==
  IF pending.shared
    THEN [m EXCEPT !.stored =
            (t :> (removeAt(pending.elems, i) \o
                   SubSeq(Operands(m, t), Len(pending.elems),
                          Len(Operands(m, t))))) @@ @]
    ELSE m

\* The inner loop of matchAllOf: for i := range pending.
matchAllOfScan(m, t, pending, i) ==
  IF i > Len(pending.elems) THEN [any |-> FALSE, m |-> m, pending |-> pending]
  ELSE With(match(m, pending.elems[i]), LAMBDA r :
         IF r.ok
           THEN [any |-> TRUE, m |-> shiftDown(r.m, t, pending, i),
                 pending |-> Slice(removeAt(pending.elems, i), pending.shared)]
           ELSE matchAllOfScan(r.m, t, pending, i + 1))

\* The outer loop of matchAllOf: for len(pending) != 0.
matchAllOfPending(m, t, pending) ==
  IF Len(pending.elems) = 0 THEN Ret(TRUE, m)
  ELSE With(peek(m, 1), LAMBDA next :
         IF next.tok.type = "ErrorToken" THEN Ret(FALSE, next.m)
         ELSE With(matchAllOfScan(next.m, t, pending, 1), LAMBDA s :
                IF s.any THEN matchAllOfPending(s.m, t, s.pending)
                ELSE Ret(FALSE, s.m)))

\* pending := append([]Term{}, t.Operands...)
matchAllOf(m, t) == matchAllOfPending(m, t, copyOperands(m, t))

\* A loop of matchOneOf that does not return on the first success: it goes
\* on to the operands after it.
matchOneOfFromPastSuccess(m, operands, i) ==
  IF i > Len(operands) THEN Ret(FALSE, m)
  ELSE With(match(m, operands[i]), LAMBDA r :
         IF r.ok
           THEN Ret(TRUE, matchOneOfFrom(r.m, operands, i + 1).m)
           ELSE matchOneOfFrom(r.m, operands, i + 1))

\* The loop of matchOneOf over operands, from operand i on.
matchOneOfFrom(m, operands, i) ==
  IF i > Len(operands) THEN Ret(FALSE, m)
  ELSE With(match(m, operands[i]), LAMBDA r :
         IF r.ok THEN Ret(TRUE, r.m)
         ELSE matchOneOfFrom(r.m, operands, i + 1))

matchOneOf(m, operands) == matchOneOfFrom(m, operands, 1)

\* An AnyOf that stops after its first match: no further rounds.
matchAnyOfNoRounds(m, operands) == Ret(TRUE, m)

\* for m.matchOneOf(t.Operands) {}; return true
matchAnyOfRounds(m, operands) ==
  With(matchOneOf(m, operands), LAMBDA r :
    IF Stalled(m, r) THEN Ret(FALSE, Panic(r.m, Forever))
    ELSE IF r.ok THEN matchAnyOfRounds(r.m, operands) ELSE Ret(TRUE, r.m))

matchAnyOf(m, t) ==
  With(matchOneOf(m, t.ops), LAMBDA r :
    IF r.ok THEN matchAnyOfRounds(r.m, t.ops) ELSE Ret(FALSE, r.m))

matchGroup(m, t) ==
  With(match(m, Operand(t)), LAMBDA r :
    IF r.ok
      THEN IF t.name # "" THEN Ret(TRUE, capture(r.m, t.name, Len(m.result)))
           ELSE Ret(TRUE, r.m)
      ELSE Ret(FALSE, r.m))

\* for m.match(operand) {}; return true
matchWhile(m, operand) ==
  With(match(m, operand), LAMBDA r :
    IF Stalled(m, r) THEN Ret(FALSE, Panic(r.m, Forever))
    ELSE IF r.ok THEN matchWhile(r.m, operand) ELSE Ret(TRUE, r.m))

matchZeroOrMore(m, t) == matchWhile(m, Operand(t))

matchOneOrMore(m, t) ==
  With(match(m, Operand(t)), LAMBDA r :
    IF r.ok THEN matchWhile(r.m, Operand(t)) ELSE Ret(FALSE, r.m))

matchZeroOrOne(m, t) == Ret(TRUE, match(m, Operand(t)).m)

\* A Repeat that requires the comma and leaves it unconsumed.
chompCommaNever(m, t, n) == m

\* if n > 0 && t.Commas { ...; m.chomp() }, once the next token is a comma
chompComma(m, t, n) == IF n > 0 /\ t.commas THEN chomp(m) ELSE m

\* A loop condition that lets one repetition too many through.
repeatAgainInclusive(t, n) == n <= t.max

\* for n < t.Max
repeatAgain(t, n) == n < t.max

\* The loop of matchRepeat, with n repetitions completed.
matchRepeatFrom(m, t, n) ==
  IF ~repeatAgain(t, n) THEN Ret(n >= t.min, m)
  ELSE With(peek(m, 1), LAMBDA next :
         IF next.tok.type = "ErrorToken" THEN Ret(n >= t.min, next.m)
         ELSE IF n > 0 /\ t.commas /\ next.tok.type # "CommaToken"
           THEN Ret(FALSE, next.m)
         ELSE With(match(chompComma(next.m, t, n), Operand(t)), LAMBDA r :
                IF r.ok THEN matchRepeatFrom(r.m, t, n + 1)
                ELSE Ret(n >= t.min, r.m)))

matchRepeat(m, t) == matchRepeatFrom(m, t, 0)

\* The switch of match on the term's type.
dispatch(m, t) ==
  CASE t.kind = "Keyword" -> matchKeyword(m, t)
    [] t.kind = "BasicType" -> matchBasicType(m, t)
    [] t.kind = "PropertyType" -> matchPropertyType(m, t)
    [] t.kind = "NonTerminal" -> matchNonTerminal(m, t)
    [] t.kind = "Literal" -> matchLiteral(m, t)
    [] t.kind = "Seq" -> matchSeq(m, t)
    [] t.kind = "AllOf" -> matchAllOf(m, t)
    [] t.kind = "AnyOf" -> matchAnyOf(m, t)
    [] t.kind = "OneOf" -> matchOneOf(m, t.ops)
    [] t.kind = "Group" -> matchGroup(m, t)
    [] t.kind = "ZeroOrMore" -> matchZeroOrMore(m, t)
    [] t.kind = "OneOrMore" -> matchOneOrMore(m, t)
    [] t.kind = "ZeroOrOne" -> matchZeroOrOne(m, t)
    [] t.kind = "Repeat" -> matchRepeat(m, t)
    [] OTHER -> Ret(FALSE, Panic(m, "unexpected term"))

\* One entry of m.calls: the call match(t) entered with matcher `pre` and
\* returned `matched` with matcher `post`; `first` is the number of calls
\* completed before it was entered, `depth` the number of match calls it is
\* nested in.
Call(t, pre, post, matched) ==
  [t |-> t, pre |-> Observed(pre), post |-> Observed(post),
   matched |-> matched, depth |-> pre.depth, first |-> Len(pre.calls)]

\* The entry of match: one call deeper.
entered(m) == [m EXCEPT !.depth = @ + 1]

\* The call match(t), entered with matcher pre and returning `matched` with
\* matcher post, noted in m.calls.
noted(pre, t, post, matched) ==
  [post EXCEPT !.depth = pre.depth,
               !.calls = Append(@, Call(t, pre, post, matched))]

\* A match that never rolls back.
restoreNothing(m, r) == r.m

\* if !matched { roll back }, with so, sr, sc as saved on entry in m; r is
\* what the switch left
restore(m, r) ==
  IF ~r.ok /\ r.m.fault = ""
    THEN rollback(r.m, m.offset, Len(m.result), Len(m.captures))
    ELSE r.m

\* The end of match, after the switch has left r: the rollback, and
\* return matched.
returned(m, t, r) ==
  IF r.m.fault = Forever THEN Ret(FALSE, [r.m EXCEPT !.depth = m.depth])
  ELSE IF r.ok /\ r.m.fault = ""
    THEN Ret(TRUE, noted(m, t, r.m, TRUE))
    ELSE Ret(FALSE, noted(m, t, restore(m, r), FALSE))

match(m, t) ==
  IF m.fault # "" THEN Ret(FALSE, m)
  ELSE returned(m, t, dispatch(entered(m), t))

(***************************************************************************)
(* Value tokens, as the css tokenizer delivers them.                       *)
(***************************************************************************)
Ident(text) == Token("IdentToken", text)

Number(text) == Token("NumberToken", text)

Comma == Token("CommaToken", <<",">>)

Space == Token("WhitespaceToken", <<" ">>)

\* The function-start token of a call of `name`: the name and the parenthesis.
FunctionStart(name) == Token("FunctionToken", name \o <<"(">>)

(***************************************************************************)
(* The Context of the tests (TestMatch, TestCaptures), extended with       *)
(* property bindings and short functions.                                  *)
(***************************************************************************)
lengthPercentage == OneOf(<< BasicType("length"), BasicType("percentage") >>)

familyName == OneOf(<< BasicType("string"), BasicType("custom-ident") >>)

genericFamily ==
  OneOf(<< Keyword(<<"s","e","r","i","f">>),
           Keyword(<<"s","a","n","s","-","s","e","r","i","f">>),
           Keyword(<<"c","u","r","s","i","v","e">>),
           Keyword(<<"f","a","n","t","a","s","y">>),
           Keyword(<<"m","o","n","o","s","p","a","c","e">>) >>)

Ctx ==
  [Properties |->
     [n \in {"color", "flow"} |->
        CASE n = "color" -> BasicType("color")
          [] n = "flow" -> SeqTerm("", << Keyword(<<"a">>), Keyword(<<"b">>) >>)],
   NonTerminals |->
     [n \in {"min-x", "min-y", "width", "height", "family-name",
             "generic-family"} |->
        CASE n = "family-name" -> familyName
          [] n = "generic-family" -> genericFamily
          [] OTHER -> BasicType("number")],
   Functions |->
     [n \in {<<"r","g","b","a">>, <<"f">>, <<"g">>, <<"h">>} |->
        CASE n = <<"r","g","b","a">> ->
               Function(<< lengthPercentage, lengthPercentage,
                           lengthPercentage, lengthPercentage >>,
                        BasicType("color"))
          [] n = <<"f">> ->
               Function(<< BasicType("number"), BasicType("number") >>,
                        BasicType("color"))
          [] n = <<"g">> ->
               Function(<< BasicType("number") >>, BasicType("length"))
          [] n = <<"h">> ->
               Function(<< NonTerminal("generic-family") >>,
                        BasicType("color"))]]

(***************************************************************************)
(* The calls of Match that are explored: a Term tree, and the value        *)
(* streams offered to it: every stream of at most MaxLen tokens over the   *)
(* scenario's alphabet, and the values the tests use.                      *)
(***************************************************************************)
Streams(alphabet, n) == UNION {[1..k -> alphabet] : k \in 0..n}

Scenario(term, alphabet, fixed) ==
  [term |-> term, alphabet |-> alphabet, fixed |-> fixed]

Px(text) == Token("DimensionToken", text \o <<"p","x">>)

Percent(text) == Token("PercentageToken", text \o <<"%">>)

Delim(text) == Token("DelimToken", text)

RightParen == Token("RightParenthesisToken", <<")">>)

LeftParen == Token("LeftParenthesisToken", <<"(">>)

sansSerif == <<"s","a","n","s","-","s","e","r","i","f">>

GillSans == Token("StringToken", <<"\"","G","i","l","l"," ","S","a","n","s","\"">>)

Futura == Ident(<<"F","u","t","u","r","a">>)

\* A && B && C whose operands accept overlapping values.
AllOfOverlap ==
  AllOf(<< BasicType("custom-ident"), Keyword(<<"b">>), BasicType("number") >>)

\* A && B && C whose operands accept disjoint values.
AllOfDisjoint ==
  AllOf(<< Keyword(<<"a">>), Keyword(<<"b">>), BasicType("number") >>)

\* <number>{2,4}
Repeat24 == Repeat(2, 4, FALSE, BasicType("number"))

\* [ <length> | thick | medium | thin ]{1,4}
BorderWidth ==
  Repeat(1, 4, FALSE,
    Group("", FALSE,
      OneOf(<< BasicType("length"), Keyword(<<"t","h","i","c","k">>),
               Keyword(<<"m","e","d","i","u","m">>),
               Keyword(<<"t","h","i","n">>) >>)))

\* [ <family-name> | <generic-family> ]#
FontFamily ==
  Repeat(1, MaxInt64, TRUE,
    Group("", FALSE,
      OneOf(<< NonTerminal("family-name"), NonTerminal("generic-family") >>)))

\* [ <generic-family> | <family-name> ]#
FamilyFont ==
  Repeat(1, MaxInt64, TRUE,
    Group("", FALSE,
      OneOf(<< NonTerminal("generic-family"), NonTerminal("family-name") >>)))

\* none | underline || overline || line-through || blink
TextDecoration ==
  OneOf(<< Keyword(<<"n","o","n","e">>),
           AnyOf(<< Keyword(<<"u","n","d","e","r","l","i","n","e">>),
                    Keyword(<<"o","v","e","r","l","i","n","e">>),
                    Keyword(<<"l","i","n","e","-","t","h","r","o","u","g","h">>),
                    Keyword(<<"b","l","i","n","k">>) >>) >>)

\* [<min-x>,? <min-y>,? <width>,? <height>], sep being what `,?` compiled to.
ViewBox(sep) ==
  Group("", FALSE,
    SeqTerm("", << NonTerminal("min-x"), sep, NonTerminal("min-y"), sep,
                   NonTerminal("width"), sep, NonTerminal("height") >>))

\* <length> | <color> | <number>, against calls of f, g and an unknown u
Calls ==
  OneOf(<< BasicType("length"), BasicType("color"), BasicType("number") >>)

\* [?call <color> <number>?] : a function value inside a named group
NamedCall ==
  Group("call", FALSE,
    SeqTerm("", << BasicType("color"), ZeroOrOne(BasicType("number")) >>))

\* <'flow'> | <'color'> | <'none'> | a
Properties ==
  OneOf(<< PropertyType("flow"), PropertyType("color"), PropertyType("none"),
           Keyword(<<"a">>) >>)

\* <nope> | [?size <width> <height>] | <width>
NonTerminals ==
  OneOf(<< NonTerminal("nope"),
           SeqTerm("size", << NonTerminal("width"), NonTerminal("height") >>),
           NonTerminal("width") >>)

\* <ratio> a
Ratio == SeqTerm("", << BasicType("ratio"), Keyword(<<"a">>) >>)

\* [ "(" a* ")" ]+ | "(" <width>+
Parens ==
  OneOf(<< OneOrMore(Group("", FALSE,
             SeqTerm("", << Literal(<<"(">>), ZeroOrMore(Keyword(<<"a">>)),
                            Literal(<<")">>) >>))),
           SeqTerm("", << Literal(<<"(">>), OneOrMore(NonTerminal("width")) >>) >>)

\* [ inset? && <length>{2,4} && <color>? ]# | none
BoxShadow ==
  OneOf(<< Repeat(1, MaxInt64, TRUE,
             Group("", FALSE,
               AllOf(<< ZeroOrOne(Keyword(<<"i","n","s","e","t">>)),
                        Repeat(2, 4, FALSE, BasicType("length")),
                        ZeroOrOne(BasicType("color")) >>))),
           Keyword(<<"n","o","n","e">>) >>)

\* [ a? ]!: a required group whose operand can match nothing.
RequiredGroup == Group("", TRUE, ZeroOrOne(Keyword(<<"a">>)))

\* [ a? ]*
OptionalStar == ZeroOrMore(Group("", FALSE, ZeroOrOne(Keyword(<<"a">>))))

\* a? || b
OptionalAny == AnyOf(<< ZeroOrOne(Keyword(<<"a">>)), Keyword(<<"b">>) >>)

Scenarios ==
  { Scenario(RequiredGroup, {Ident(<<"a">>), Ident(<<"b">>)}, {}),
    Scenario(OptionalStar, {Ident(<<"a">>), Ident(<<"b">>)}, {}),
    Scenario(OptionalAny, {Ident(<<"a">>), Ident(<<"b">>)}, {}),
    Scenario(AllOfOverlap,
             {Ident(<<"a">>), Ident(<<"b">>), Number(<<"1">>)}, {}),
    Scenario(AllOfDisjoint,
             {Ident(<<"a">>), Ident(<<"b">>), Number(<<"1">>), Space}, {}),
    Scenario(Repeat24, {Number(<<"1">>), Ident(<<"a">>)},
             {[i \in 1..6 |-> Number(<<"1">>)]}),
    Scenario(BorderWidth, {Px(<<"2">>), Ident(<<"m","e","d","i","u","m">>)},
             {<< Px(<<"2">>), Space, Ident(<<"m","e","d","i","u","m">>), Space,
                 Px(<<"4">>) >>}),
    Scenario(FontFamily, {GillSans, Ident(sansSerif), Comma},
             {<< GillSans, Comma, Space, Futura, Comma, Space,
                 Ident(sansSerif) >>}),
    Scenario(FamilyFont, {GillSans, Ident(sansSerif), Comma}, {}),
    Scenario(TextDecoration,
             {Ident(<<"n","o","n","e">>),
              Ident(<<"u","n","d","e","r","l","i","n","e">>),
              Ident(<<"o","v","e","r","l","i","n","e">>)},
             {<< Ident(<<"u","n","d","e","r","l","i","n","e">>), Space,
                 Ident(<<"o","v","e","r","l","i","n","e">>) >>}),
    Scenario(ViewBox(ZeroOrOne(Literal(<<"?">>))),
             {Number(<<"0">>), Number(<<"2","0","0">>), Comma},
             {<< Number(<<"0">>), Space, Number(<<"0">>), Space,
                 Number(<<"2","0","0">>), Space, Number(<<"3","0","0">>) >>}),
    Scenario(Calls,
             {FunctionStart(<<"f">>), Number(<<"1">>), Comma, RightParen}, {}),
    Scenario(Calls,
             {FunctionStart(<<"g">>), FunctionStart(<<"u">>), Number(<<"1">>),
              RightParen}, {}),
    Scenario(NamedCall,
             {FunctionStart(<<"h">>), Ident(sansSerif), Number(<<"1">>),
              RightParen}, {}),
    Scenario(Properties, {Ident(<<"a">>), Ident(<<"b">>)}, {}),
    Scenario(NonTerminals, {Number(<<"1">>), Ident(<<"a">>)}, {}),
    Scenario(Ratio, {Number(<<"1">>), Delim(<<"/">>), Ident(<<"a">>)}, {}),
    Scenario(Parens, {LeftParen, RightParen, Ident(<<"a">>), Number(<<"1">>)}, {}),
    Scenario(BoxShadow,
             {Ident(<<"i","n","s","e","t">>), Px(<<"3">>),
              Token("HashToken", <<"#","f","e","f">>), Comma},
             {<< Px(<<"3">>), Space, Px(<<"3">>), Space,
                 FunctionStart(<<"r","g","b","a">>), Percent(<<"5","0">>), Comma,
                 Space, Percent(<<"5","0">>), Comma, Space, Percent(<<"5","0">>),
                 Comma, Space, Percent(<<"5","0">>), RightParen, Comma, Space,
                 Ident(<<"l","e","m","o","n">>), Space, Number(<<"0">>), Space,
                 Number(<<"0">>), Space, Px(<<"4">>), Space,
                 Ident(<<"i","n","s","e","t">>) >>}) }

(***************************************************************************)
(* The grammar notation lexer (lex.go).  The text read through l.r is a    *)
(* sequence of bytes: an ASCII byte is the one-character string of its     *)
(* character, the byte 0 is Nul, and the bytes of the multi-byte glyphs    *)
(* are "E2", "88", "9E" (the infinity glyph) and "C3", "A9".  A rune is    *)
(* the one-character string, Nul for 0, RuneError for utf8.RuneError, or   *)
(* Infinity; the token runes above unicode.MaxRune are the strings below.  *)
(***************************************************************************)
Nul == "NUL"

RuneError == "RuneError"

Infinity == "Infinity"

identToken == "identToken"

numberToken == "numberToken"

literalToken == "literalToken"

anyOfToken == "anyOfToken"

allOfToken == "allOfToken"

\* The bytes of the infinity glyph, U+221E.
InfinityBytes == << "E2", "88", "9E" >>

\* utf8.RuneStart(b): b is not a continuation byte (10xxxxxx).
RuneStart(b) == b \notin {"88", "9E", "A9"}

\* bits.LeadingZeros8(^b): the number of leading one bits of b.
LeadingOnes(b) ==
  CASE b = "E2" -> 3
    [] b = "C3" -> 2
    [] b \in {"88", "9E", "A9"} -> 1
    [] OTHER -> 0

\* utf8.DecodeRune(p): the rune p encodes, utf8.RuneError if p is not a
\* complete encoding.
DecodeRune(p) ==
  CASE p = InfinityBytes -> Infinity
    [] p = << "C3", "A9" >> -> "e'"
    [] OTHER -> RuneError

Letters ==
  { "a", "b", "c", "d", "e", "f", "g", "h", "i", "j", "k", "l", "m", "n",
    "o", "p", "q", "r", "s", "t", "u", "v", "w", "x", "y", "z",
    "A", "B", "C", "D", "E", "F", "G", "H", "I", "J", "K", "L", "M", "N",
    "O", "P", "Q", "R", "S", "T", "U", "V", "W", "X", "Y", "Z" }

Digits == { "0", "1", "2", "3", "4", "5", "6", "7", "8", "9" }

\* unicode.IsSpace(c), for the characters of the texts explored.
IsSpace(c) == c \in { " ", "\n", "\t" }

startsIdent(c) == c \in {"-", "_"} \cup Letters

isDigit(c) == c \in Digits

\* lexer{r: r}: nothing buffered, no token yet.  input and pos are the
\* reader r.  Not read by the code: held, the number of bytes the buffered
\* rune took from r; lexed, the calls of lex() made so far; suffixed, the
\* calls of parseMultiplier that had an operand; fault, set once a loop of
\* the lexer cannot end.
NotationLexer(r) ==
  [input |-> r, pos |-> 0, buf |-> Nul, err |-> "", nb |-> 0,
   token |-> Nul, value |-> <<>>, held |-> 0, lexed |-> <<>>,
   suffixed |-> <<>>, fault |-> ""]

\* What readRune and the lex functions return: a rune and an error, and
\* the lexer after.
Rune(l, c, err) == [l |-> l, c |-> c, err |-> err]

\* l.r.Read(p) for a p of n bytes, of a strings.Reader: io.EOF at the end
\* of the text even if n is 0, else as many bytes as there are, at most n.
ReadBytes(l, n) ==
  IF l.pos >= Len(l.input)
    THEN [l |-> l, bytes |-> <<>>, err |-> "EOF"]
    ELSE With(IF Len(l.input) - l.pos < n THEN Len(l.input) - l.pos ELSE n,
              LAMBDA k :
           [l |-> [l EXCEPT !.pos = @ + k],
            bytes |-> SubSeq(l.input, l.pos + 1, l.pos + k), err |-> ""])

\* buf[:sz] once first is in buf[0] and more was read into buf[1:]: what
\* was not read is still 0.
Filled(first, more, sz) ==
  [i \in 1..sz |-> IF i = 1 THEN first
                   ELSE IF i - 1 <= Len(more) THEN more[i - 1] ELSE Nul]

\* The rest of readRune once the first byte b is read and starts a rune of
\* sz > 0 bytes: l.r.Read(buf[1 : sz-1]), then utf8.DecodeRune(buf[:sz]).
readRuneTail(l, b, sz) ==
  With(ReadBytes(l, sz - 2), LAMBDA more :
    IF more.err # "" THEN Rune(more.l, Nul, more.err)
    ELSE Rune(more.l, DecodeRune(Filled(b, more.bytes, sz)), ""))

readRune(l) ==
  With(ReadBytes(l, 1), LAMBDA first :
    IF first.err # "" THEN Rune(first.l, Nul, first.err)
    ELSE IF ~RuneStart(first.bytes[1]) THEN Rune(first.l, RuneError, "")
    ELSE IF LeadingOnes(first.bytes[1]) = 0
      THEN Rune(first.l, first.bytes[1], "")
    ELSE readRuneTail(first.l, first.bytes[1], LeadingOnes(first.bytes[1])))

\* lexer.peek: the rune is in r.c, that is l.buf.
lexerPeek(l) ==
  IF l.nb # 1
    THEN With(readRune(l), LAMBDA r :
           Rune([r.l EXCEPT !.buf = r.c, !.err = r.err, !.nb = 1,
                            !.held = r.l.pos - l.pos], r.c, ""))
    ELSE Rune(l, l.buf, "")

\* lexer.chomp: the rune returned is l.buf.
lexerChomp(l) ==
  IF l.fault # "" THEN l
  ELSE IF l.nb # 1 THEN [l EXCEPT !.fault = "expected a buffered rune"]
  ELSE [l EXCEPT !.nb = 0]

\* l.value.WriteRune(c)
WriteRune(l, c) == [l EXCEPT !.value = Append(@, c)]

\* l.value.WriteRune(l.chomp())
writeChomp(l) == WriteRune(lexerChomp(l), l.buf)

RECURSIVE lexIdentLoop(_)
\* for startsIdent(l.peek()) { l.value.WriteRune(l.chomp()) }
lexIdentLoop(l) ==
  With(lexerPeek(l), LAMBDA p :
    IF startsIdent(p.c) THEN lexIdentLoop(writeChomp(p.l))
    ELSE Rune(p.l, identToken, ""))

lexIdent(l, first) ==
  lexIdentLoop(IF first # Nul THEN WriteRune(l, first) ELSE l)

RECURSIVE lexDigits(_)
\* for isDigit(c) { l.value.WriteRune(l.chomp()); c = l.peek() }, entered
\* with c peeked: the lexer after, with the first non-digit in l.buf.
lexDigits(l) ==
  IF isDigit(l.buf) THEN lexDigits(lexerPeek(writeChomp(l)).l) ELSE l

\* lexNumber from "if !isDigit(c)" on, c being l.buf.
lexNumberExponentDigits(l) ==
  IF isDigit(l.buf) THEN Rune(lexDigits(l), numberToken, "")
  ELSE Rune(l, Nul, "invalid number token")

\* lexNumber from "// exponent" on.
lexNumberExponent(l) ==
  With(lexerPeek(writeChomp(l)).l, LAMBDA e :
    IF e.buf \in {"-", "+"}
      THEN lexNumberExponentDigits(lexerPeek(writeChomp(e)).l)
      ELSE lexNumberExponentDigits(e))

\* lexNumber from "// decimal" on, c being l.buf.
lexNumberDecimal(l) ==
  With(IF l.buf = "." THEN lexDigits(lexerPeek(writeChomp(l)).l) ELSE l,
       LAMBDA d :
    IF d.buf \notin {"e", "E"} THEN Rune(d, numberToken, "")
    ELSE lexNumberExponent(d))

lexNumber(l, first) ==
  With(lexerPeek(IF first # Nul THEN WriteRune(l, first) ELSE l),
       LAMBDA p :
    IF p.c = Infinity THEN Rune(writeChomp(p.l), numberToken, "")
    ELSE lexNumberDecimal(lexDigits(p.l)))

RECURSIVE lexLiteralLoop(_)
\* for l.peek() != '"' { l.value.WriteRune(l.chomp()) }, then l.chomp().
\* At the end of the text peek returns 0 for ever and the loop never ends.
lexLiteralLoop(l) ==
  With(lexerPeek(l), LAMBDA p :
    IF p.c = "\"" THEN Rune(lexerChomp(p.l), literalToken, "")
    ELSE IF p.l.err # ""
      THEN Rune([p.l EXCEPT !.fault = "lexLiteral never returns"], Nul, "never")
    ELSE lexLiteralLoop(writeChomp(p.l)))

lexLiteral(l) == lexLiteralLoop(lexerChomp(l))

\* first is read from l.r although the minus sign that was peeked is still
\* buffered, so next is that minus sign.
lexIdentOrNumberOrToken(l) ==
  With(readRune(l), LAMBDA first :
    IF first.err # "" THEN Rune(first.l, Nul, first.err)
    ELSE With(lexerPeek(first.l), LAMBDA next :
      IF isDigit(next.c) \/ next.c = Infinity
        THEN lexNumber(next.l, first.c)
      ELSE IF startsIdent(next.c) THEN lexIdent(next.l, first.c)
      ELSE Rune(next.l, first.c, "")))

lexNumberOrPlus(l) ==
  With(lexerPeek(lexerChomp(l)), LAMBDA next :
    IF isDigit(next.c) \/ next.c = Infinity THEN lexNumber(next.l, l.buf)
    ELSE Rune(next.l, l.buf, ""))

lexOneOrAnyOf(l) ==
  With(lexerPeek(lexerChomp(l)), LAMBDA next :
    IF next.c = "|" THEN Rune(lexerChomp(next.l), anyOfToken, "")
    ELSE Rune(next.l, "|", ""))

lexAllOfOrRune(l) ==
  With(lexerPeek(lexerChomp(l)), LAMBDA next :
    IF next.c = "&" THEN Rune(lexerChomp(next.l), allOfToken, "")
    ELSE Rune(next.l, "&", ""))

\* The runes lexNext returns as the token they are.
Punctuation == {"<", ">", "[", "]", "{", "}", "'", ",", "*", "?", "#", "!"}

RECURSIVE lexNextLoop(_)
\* The for loop of lexNext: one switch on the peeked rune, again after a
\* space or an undecodable byte was dropped.
lexNextLoop(l) ==
  With(lexerPeek(l), LAMBDA p :
    CASE p.c = Nul -> Rune(p.l, Nul, p.l.err)
      [] p.c = "-" -> lexIdentOrNumberOrToken(p.l)
      [] p.c = "+" -> lexNumberOrPlus(p.l)
      [] p.c = "|" -> lexOneOrAnyOf(p.l)
      [] p.c = "&" -> lexAllOfOrRune(p.l)
      [] p.c \in Punctuation -> Rune(lexerChomp(p.l), p.c, "")
      [] p.c = RuneError \/ IsSpace(p.c) -> lexNextLoop(lexerChomp(p.l))
      [] p.c \in ({"_"} \cup Letters) -> lexIdent(p.l, Nul)
      [] p.c = Infinity \/ isDigit(p.c) -> lexNumber(p.l, Nul)
      [] p.c = "\"" -> lexLiteral(p.l)
      [] OTHER -> Rune(writeChomp(p.l), literalToken, ""))

lexNext(l) == lexNextLoop([l EXCEPT !.value = <<>>])

\* The number of bytes of the text the lexer has used up: what it read
\* less the rune it holds in buf.
Used(l) == l.pos - (IF l.nb = 1 THEN l.held ELSE 0)

\* One entry of l.lexed: the token and value a call of lex() left, the
\* error it returned, and the bytes it used up.
Lexeme(l, r) ==
  [token |-> r.c, value |-> r.l.value, err |-> r.err,
   from |-> Used(l), to |-> Used(r.l)]

\* The body of lex(): r.err is the error returned.
lexerLex(l) ==
  IF l.fault # "" THEN Rune(l, Nul, "never")
  ELSE With(lexNext(l), LAMBDA r :
         Rune([r.l EXCEPT !.token = r.c,
                          !.lexed = Append(@, Lexeme(l, r))], r.c, r.err))

\* invoke(f, l) is the call f(l) of a function of the package on the lexer
\* l; every caller of lex() shares the one definition of its body.
RECURSIVE invoke(_, _)

\* l.lex()
lex(l) == invoke("lex", l)

(***************************************************************************)
(* The grammar notation parser (lex.go, second file of the package).  A    *)
(* parse function returns Parsed(l, term, err): the lexer after, the Term  *)
(* (NoTerm for nil) and the error ("" for nil).  The names and texts of    *)
(* the Terms it builds are l.value, a sequence of runes.                   *)
(***************************************************************************)
Parsed(l, term, err) == [l |-> l, term |-> term, err |-> err]

\* return nil, err
Failed(l, err) == Parsed(l, NoTerm, err)

\* if err := l.lex(); err != nil && err != io.EOF: the end of the text is
\* not an error here.
lexOrEOF(l) ==
  With(lex(l), LAMBDA x : IF x.err = "EOF" THEN Rune(x.l, x.c, "") ELSE x)

DigitValue(c) == (CHOOSE i \in 1..10 :
                    <<"0","1","2","3","4","5","6","7","8","9">>[i] = c) - 1

RECURSIVE DecimalValue(_)
DecimalValue(digits) ==
  IF digits = <<>> THEN 0
  ELSE 10 * DecimalValue(SubSeq(digits, 1, Len(digits) - 1))
         + DigitValue(digits[Len(digits)])

\* value without its sign
Unsigned(value) ==
  IF value # <<>> /\ value[1] \in {"+", "-"} THEN Tail(value) ELSE value

Negative(value) == value # <<>> /\ value[1] = "-"

AllDigits(digits) == \A i \in 1..Len(digits) : isDigit(digits[i])

\* strconv.ParseInt(value, 10, 0): an optional sign and decimal digits.
ParseInt(value) ==
  IF Unsigned(value) # <<>> /\ AllDigits(Unsigned(value))
    THEN [ok |-> TRUE,
          n |-> IF Negative(value) THEN 0 - DecimalValue(Unsigned(value))
                ELSE DecimalValue(Unsigned(value))]
    ELSE [ok |-> FALSE, n |-> 0]

\* The first place of value that holds one of the runes, Len(value) + 1 if
\* none does.
Find(value, runes) ==
  IF \E i \in 1..Len(value) : value[i] \in runes
    THEN CHOOSE i \in 1..Len(value) :
           value[i] \in runes /\ \A j \in 1..(i - 1) : value[j] \notin runes
    ELSE Len(value) + 1

\* The mantissa of a number text: what precedes its exponent mark.
Mantissa(value) == SubSeq(value, 1, Find(value, {"e", "E"}) - 1)

\* The exponent of a number text: what follows its exponent mark.
Exponent(value) == SubSeq(value, Find(value, {"e", "E"}) + 1, Len(value))

\* The digits of a mantissa, its decimal point left out.
MantissaDigits(mantissa) == SelectSeq(mantissa, LAMBDA c : c # ".")

\* The number of digits after the decimal point of a mantissa.
FractionLen(mantissa) ==
  IF Find(mantissa, {"."}) > Len(mantissa) THEN 0
  ELSE Len(mantissa) - Find(mantissa, {"."})

\* strconv.ParseFloat(value, 64) of a number token's text: a sign, digits
\* with at most one decimal point, an exponent; the infinity glyph is not
\* a float syntax.
ParseFloat(value) ==
  IF /\ MantissaDigits(Mantissa(Unsigned(value))) # <<>>
     /\ AllDigits(MantissaDigits(Mantissa(Unsigned(value))))
     /\ (Exponent(value) = <<>> \/ ParseInt(Exponent(value)).ok)
    THEN [ok |-> TRUE,
          f |-> Float(Negative(value),
                      DecimalValue(MantissaDigits(Mantissa(Unsigned(value)))),
                      ParseInt(Exponent(value)).n
                        - FractionLen(Mantissa(Unsigned(value))))]
    ELSE [ok |-> FALSE, f |-> Float(FALSE, 0, 0)]

\* string([]rune{r}): the UTF-8 text of one rune.  identToken is
\* unicode.MaxRune itself and has an encoding; the token runes above it
\* have none and give U+FFFD, as utf8.RuneError does.
RuneString(r) ==
  CASE r = identToken -> << "U+10FFFF" >>
    [] r \in {numberToken, literalToken, anyOfToken, allOfToken, RuneError}
         -> << "U+FFFD" >>
    [] OTHER -> << r >>

\* The names parseType makes a BasicType of, and those that take a range.
RangedTypeNames ==
  { <<"i","n","t","e","g","e","r">>, <<"n","u","m","b","e","r">>,
    <<"d","i","m","e","n","s","i","o","n">>,
    <<"p","e","r","c","e","n","t","a","g","e">>, <<"r","a","t","i","o">>,
    <<"l","e","n","g","t","h">>, <<"a","n","g","l","e">>,
    <<"t","i","m","e">>, <<"f","r","e","q","u","e","n","c","y">>,
    <<"r","e","s","o","l","u","t","i","o","n">> }

BasicTypeNames ==
  RangedTypeNames \cup
  { <<"c","u","s","t","o","m","-","i","d","e","n","t">>,
    <<"d","a","s","h","e","d","-","i","d","e","n","t">>,
    <<"s","t","r","i","n","g">>, <<"u","r","l">>,
    <<"c","o","l","o","r">> }

RECURSIVE parseOneOf(_)

\* parseRange from the second number on.
parseRangeMax(l, min) ==
  IF l.token # numberToken THEN Failed(l, "expected a number")
  ELSE IF ~ParseFloat(l.value).ok THEN Failed(l, "strconv.ParseFloat")
  ELSE With(lex(l), LAMBDA x :
    IF x.err # "" THEN Failed(x.l, x.err)
    ELSE IF x.l.token # "]" THEN Failed(x.l, "expected ']'")
    ELSE With(lex(x.l), LAMBDA y :
      IF y.err # "" THEN Failed(y.l, y.err)
      ELSE Parsed(y.l, Range(min, ParseFloat(l.value).f), "")))

\* The term of the result is the *Range.
parseRange(l) ==
  With(lex(l), LAMBDA x :
    IF x.err # "" THEN Failed(x.l, x.err)
    ELSE IF x.l.token # numberToken THEN Failed(x.l, "expected a number")
    ELSE IF ~ParseFloat(x.l.value).ok THEN Failed(x.l, "strconv.ParseFloat")
    ELSE With(lex(x.l), LAMBDA y :
      IF y.err # "" THEN Failed(y.l, y.err)
      ELSE IF y.l.token # "," THEN Failed(y.l, "expected ','")
      ELSE With(lex(y.l), LAMBDA z :
        IF z.err # "" THEN Failed(z.l, z.err)
        ELSE parseRangeMax(z.l, ParseFloat(x.l.value).f))))

\* parseType from "if l.token != '>'" on, in the identToken case.
parseTypeClose(l, name, r) ==
  IF l.token # ">" THEN Failed(l, "expected '>'")
  ELSE With(lexOrEOF(l), LAMBDA x :
    IF x.err # "" THEN Failed(x.l, x.err)
    ELSE IF name \in BasicTypeNames THEN Parsed(x.l, RangedType(name, r), "")
    ELSE Parsed(x.l, NonTerminal(name), ""))

\* The identToken case of parseType, l.token being what follows the name.
parseTypeNamed(l, name) ==
  IF name \in RangedTypeNames /\ l.token = "["
    THEN With(parseRange(l), LAMBDA rng :
           IF rng.err # "" THEN Failed(rng.l, rng.err)
           ELSE parseTypeClose(rng.l, name, rng.term))
    ELSE parseTypeClose(l, name, NoRange)

\* The '\'' case of parseType.
parseTypeProperty(l) ==
  With(lex(l), LAMBDA x :
    IF x.err # "" THEN Failed(x.l, x.err)
    ELSE IF x.l.token # identToken THEN Failed(x.l, "expected an identifier")
    ELSE With(lex(x.l), LAMBDA y :
      IF y.err # "" THEN Failed(y.l, y.err)
      ELSE IF y.l.token # "'" THEN Failed(y.l, "expected '")
      ELSE With(lex(y.l), LAMBDA z :
        IF z.err # "" THEN Failed(z.l, z.err)
        ELSE IF z.l.token # ">" THEN Failed(z.l, "expected '>'")
        ELSE With(lexOrEOF(z.l), LAMBDA w :
          IF w.err # "" THEN Failed(w.l, w.err)
          ELSE Parsed(w.l, PropertyType(x.l.value), "")))))

parseType(l) ==
  With(lex(l), LAMBDA x :
    IF x.err # "" THEN Failed(x.l, x.err)
    ELSE IF x.l.token = identToken
      THEN With(lex(x.l), LAMBDA y :
             IF y.err # "" THEN Failed(y.l, y.err)
             ELSE parseTypeNamed(y.l, x.l.value))
    ELSE IF x.l.token = "'" THEN parseTypeProperty(x.l)
    ELSE Failed(x.l, "expected an identifier or '"))

\* The optional "? ident" of parseGroup: the name is the c of the result.
groupName(l) ==
  IF l.token # "?" THEN Rune(l, <<>>, "")
  ELSE With(lex(l), LAMBDA x :
    IF x.err # "" THEN Rune(x.l, <<>>, x.err)
    ELSE IF x.l.token # identToken THEN Rune(x.l, <<>>, "expected ident")
    ELSE With(lex(x.l), LAMBDA y : Rune(y.l, x.l.value, y.err)))

\* parseGroup from the call of parseOneOf on.
parseGroupOperand(l, name) ==
  With(parseOneOf(l), LAMBDA operand :
    IF operand.err # "" THEN Failed(operand.l, operand.err)
    ELSE IF operand.l.token # "]" THEN Failed(operand.l, "expected ']'")
    ELSE With(lexOrEOF(operand.l), LAMBDA x :
      IF x.err # "" THEN Failed(x.l, x.err)
      ELSE Parsed(x.l, Group(name, FALSE, operand.term), "")))

parseGroup(l) ==
  With(lex(l), LAMBDA x :
    IF x.err # "" THEN Failed(x.l, x.err)
    ELSE With(groupName(x.l), LAMBDA name :
      IF name.err # "" THEN Failed(name.l, name.err)
      ELSE parseGroupOperand(name.l, name.c)))

\* The identToken, literalToken and ',' cases of parseMultipliable: lex
\* on, then make the Term.  The text of the Literal of a comma is taken
\* from l.token after that lex.
parseKeyword(l) ==
  With(lexOrEOF(l), LAMBDA x :
    IF x.err # "" THEN Failed(x.l, x.err)
    ELSE Parsed(x.l, Keyword(l.value), ""))

parseLiteral(l) ==
  With(lexOrEOF(l), LAMBDA x :
    IF x.err # "" THEN Failed(x.l, x.err)
    ELSE Parsed(x.l, Literal(l.value), ""))

parseComma(l) ==
  With(lexOrEOF(l), LAMBDA x :
    IF x.err # "" THEN Failed(x.l, x.err)
    ELSE Parsed(x.l, Literal(RuneString(x.l.token)), ""))

parseMultipliable(l) ==
  CASE l.token = "[" -> parseGroup(l)
    [] l.token = "<" -> parseType(l)
    [] l.token = identToken -> parseKeyword(l)
    [] l.token = literalToken -> parseLiteral(l)
    [] l.token = "," -> parseComma(l)
    [] l.token = Nul -> Parsed(l, NoTerm, "")
    [] OTHER -> Failed(l, "expected a group, type, keyword, or literal")

\* The end of a case of parseMultiplier: lex past the suffix, return term.
multiplied(l, term) ==
  With(lexOrEOF(l), LAMBDA x :
    IF x.err # "" THEN Failed(x.l, x.err) ELSE Parsed(x.l, term, ""))

\* The mutant of requiredGroup that takes any operand.
requiredAny(l, operand) == multiplied(l, [operand EXCEPT !.required = TRUE])

\* The '!' case of parseMultiplier.
requiredGroup(l, operand) ==
  IF operand.kind # "Group" THEN Failed(l, "expected a group")
  ELSE multiplied(l, [operand EXCEPT !.required = TRUE])

\* The mutant of parseRepeatClose that forgets the `#`.
parseRepeatCloseNoCommas(l, commas, operand, min, max) ==
  IF l.token # "}" THEN Failed(l, "expected '}'")
  ELSE multiplied(l, Repeat(min, max, FALSE, operand))

\* parseMultiplier from "if l.token != '}'" on.
parseRepeatClose(l, commas, operand, min, max) ==
  IF l.token # "}" THEN Failed(l, "expected '}'")
  ELSE multiplied(l, Repeat(min, max, commas, operand))

\* parseMultiplier from "max := min" on.
parseRepeatMax(l, commas, operand, min) ==
  IF l.token # "," THEN parseRepeatClose(l, commas, operand, min, min)
  ELSE With(lex(l), LAMBDA x :
    IF x.err # "" THEN Failed(x.l, x.err)
    ELSE IF x.l.token # numberToken
      THEN parseRepeatClose(x.l, commas, operand, min, MaxInt64)
    ELSE IF ~ParseInt(x.l.value).ok THEN Failed(x.l, "strconv.ParseInt")
    ELSE With(lex(x.l), LAMBDA y :
      IF y.err # "" THEN Failed(y.l, y.err)
      ELSE parseRepeatClose(y.l, commas, operand, min,
                            ParseInt(x.l.value).n)))

\* parseMultiplier from the lex past '{' on.
parseRepeatMin(l, commas, operand) ==
  With(lex(l), LAMBDA x :
    IF x.err # "" THEN Failed(x.l, x.err)
    ELSE IF x.l.token # numberToken THEN Failed(x.l, "expected a number")
    ELSE IF ~ParseInt(x.l.value).ok THEN Failed(x.l, "strconv.ParseInt")
    ELSE With(lex(x.l), LAMBDA y :
      IF y.err # "" THEN Failed(y.l, y.err)
      ELSE parseRepeatMax(y.l, commas, operand, ParseInt(x.l.value).n)))

\* The '#' and '{' cases of parseMultiplier.
parseRepeat(l, operand) ==
  IF l.token # "#" THEN parseRepeatMin(l, FALSE, operand)
  ELSE With(lexOrEOF(l), LAMBDA x :
    IF x.err # "" THEN Failed(x.l, x.err)
    ELSE IF x.l.token # "{"
      THEN Parsed(x.l, Repeat(1, MaxInt64, TRUE, operand), "")
    ELSE parseRepeatMin(x.l, TRUE, operand))

\* One entry of l.suffixed: a parseMultiplier that had operand returns r.
\* from and to are the places in l.lexed of the token after the operand and
\* of the last token lexed at the return.
Suffixed(operand, r) ==
  [operand |-> operand.term, from |-> Len(operand.l.lexed),
   to |-> Len(r.l.lexed), term |-> r.term, err |-> r.err]

noteSuffixed(operand, r) ==
  Parsed([r.l EXCEPT !.suffixed = Append(@, Suffixed(operand, r))],
         r.term, r.err)

parseMultiplier(l) ==
  With(parseMultipliable(l), LAMBDA operand :
    IF operand.err # "" \/ operand.term.kind = "nil"
      THEN Failed(operand.l, operand.err)
    ELSE noteSuffixed(operand,
         CASE operand.l.token = "*"
                -> multiplied(operand.l, ZeroOrMore(operand.term))
           [] operand.l.token = "+"
                -> multiplied(operand.l, OneOrMore(operand.term))
           [] operand.l.token = "?"
                -> multiplied(operand.l, ZeroOrOne(operand.term))
           [] operand.l.token = "!"
                -> requiredGroup(operand.l, operand.term)
           [] operand.l.token \in {"#", "{"}
                -> parseRepeat(operand.l, operand.term)
           [] OTHER -> operand))

\* The optional "? ident" of parseSeq: the name is the c of the result.
seqName(l) ==
  IF l.token # "?" THEN Rune(l, <<>>, "")
  ELSE With(lex(l), LAMBDA x :
    IF x.err # "" THEN Rune(x.l, <<>>, x.err)
    ELSE IF x.l.token # identToken THEN Rune(x.l, <<>>, "expected ident")
    ELSE With(lex(x.l), LAMBDA y : Rune(y.l, x.l.value, y.err)))

\* What parseSeq returns once its loop is left.
seqTerm(name, operands) ==
  IF Len(operands) = 1 /\ name = <<>> THEN operands[1]
  ELSE SeqTerm(name, operands)

RECURSIVE parseSeqFrom(_, _, _)
\* The loop of parseSeq, operands being parsed so far.
parseSeqFrom(l, name, operands) ==
  With(parseMultiplier(l), LAMBDA operand :
    IF operand.err # "" THEN Failed(operand.l, operand.err)
    ELSE IF operand.term.kind = "nil"
      THEN Parsed(operand.l, seqTerm(name, operands), "")
    ELSE IF operand.l.token \in {"]", "|", anyOfToken, allOfToken}
      THEN Parsed(operand.l, seqTerm(name, Append(operands, operand.term)), "")
    ELSE parseSeqFrom(operand.l, name, Append(operands, operand.term)))

parseSeq(l) ==
  With(seqName(l), LAMBDA name :
    IF name.err # "" THEN Failed(name.l, name.err)
    ELSE parseSeqFrom(name.l, name.c, <<>>))

\* What parseAllOf returns once its loop is left.
allOfTerm(operands) ==
  IF Len(operands) = 1 THEN operands[1] ELSE AllOf(operands)

RECURSIVE parseAllOfFrom(_, _)
\* The loop of parseAllOf, operands being parsed so far.
parseAllOfFrom(l, operands) ==
  With(parseSeq(l), LAMBDA operand :
    IF operand.err # "" THEN Failed(operand.l, operand.err)
    ELSE IF operand.l.token # allOfToken
      THEN Parsed(operand.l, allOfTerm(Append(operands, operand.term)), "")
    ELSE With(lex(operand.l), LAMBDA x :
      IF x.err # "" THEN Failed(x.l, x.err)
      ELSE parseAllOfFrom(x.l, Append(operands, operand.term))))

parseAllOf(l) == parseAllOfFrom(l, <<>>)

\* The mutant of anyOfTerm that binds `||` as loosely as `|`.
anyOfTermAsOneOf(operands) ==
  IF Len(operands) = 1 THEN operands[1] ELSE OneOf(operands)

\* What parseAnyOf returns once its loop is left.
anyOfTerm(operands) ==
  IF Len(operands) = 1 THEN operands[1] ELSE AnyOf(operands)

RECURSIVE parseAnyOfFrom(_, _)
\* The loop of parseAnyOf, operands being parsed so far.
parseAnyOfFrom(l, operands) ==
  With(parseAllOf(l), LAMBDA operand :
    IF operand.err # "" THEN Failed(operand.l, operand.err)
    ELSE IF operand.l.token # anyOfToken
      THEN Parsed(operand.l, anyOfTerm(Append(operands, operand.term)), "")
    ELSE With(lex(operand.l), LAMBDA x :
      IF x.err # "" THEN Failed(x.l, x.err)
      ELSE parseAnyOfFrom(x.l, Append(operands, operand.term))))

parseAnyOf(l) == parseAnyOfFrom(l, <<>>)

\* What parseOneOf returns once its loop is left.
oneOfTerm(operands) ==
  IF Len(operands) = 1 THEN operands[1] ELSE OneOf(operands)

RECURSIVE parseOneOfFrom(_, _)
\* The loop of parseOneOf, operands being parsed so far.
parseOneOfFrom(l, operands) ==
  With(parseAnyOf(l), LAMBDA operand :
    IF operand.err # "" THEN Failed(operand.l, operand.err)
    ELSE IF operand.l.token # "|"
      THEN Parsed(operand.l, oneOfTerm(Append(operands, operand.term)), "")
    ELSE With(lex(operand.l), LAMBDA x :
      IF x.err # "" THEN Failed(x.l, x.err)
      ELSE parseOneOfFrom(x.l, Append(operands, operand.term))))

parseOneOf(l) == parseOneOfFrom(l, <<>>)

\* The mutant of expectEOF that returns the term whatever token is left.
expectEOFNever(l, term) == Parsed(l, term, "")

\* ParseGrammar once parseOneOf has returned term.
expectEOF(l, term) ==
  IF l.token # Nul THEN Failed(l, "expected EOF") ELSE Parsed(l, term, "")

\* The body of ParseGrammar, on the lexer l over its reader.
parseGrammar(l) ==
  With(lex(l), LAMBDA x :
    IF x.err # "" THEN Failed(x.l, x.err)
    ELSE With(parseOneOf(x.l), LAMBDA t :
      IF t.err # "" THEN Failed(t.l, t.err)
      ELSE expectEOF(t.l, t.term)))

\* f is "lex" or "ParseGrammar".
invoke(f, l) == IF f = "lex" THEN lexerLex(l) ELSE parseGrammar(l)

\* lexer := lexer{r: r}, then the body of ParseGrammar.
ParseGrammar(r) == invoke("ParseGrammar", NotationLexer(r))

(***************************************************************************)
(* One call Match(ctx, term, r).  The initial state is the one after the   *)
(* matcher literal of Match is built.                                      *)
(***************************************************************************)
VARIABLES
  ctx,      \* the Context argument
  term,     \* the Term argument
  input,    \* the tokens the reader r holds
  matcher,  \* the local matcher
  pc,       \* where the call stands: "match", "matched", "nomatch", "panic",
            \* "done" for Match; "lex", "lexed" for lex(); "parse", "parsed"
            \* for ParseGrammar; "never" when a loop of the matcher or of
            \* the lexer does not end, so that the call does not return
  ret,      \* the []Capture returned (<<>> is nil)
  lexer,    \* the notation lexer of ParseGrammar
  err,      \* the error ParseGrammar or lex returned ("" is nil)
  memory,   \* the Operands arrays of the Term tree written since it was built
  other     \* a second call of Match on the same ctx and term: its input,
            \* matcher, pc and ret

vars == <<ctx, term, input, matcher, pc, ret, lexer, err, memory, other>>

\* A call of Match(ctx, term, r) about to start.
MatchCall(r) ==
  [input |-> r, matcher |-> NewMatcher(Ctx, r), pc |-> "match", ret |-> <<>>]

\* No second call.
NoCall == [MatchCall(<<>>) EXCEPT !.pc = "none"]

Init ==
  \E s \in Scenarios :
    \E r \in Streams(s.alphabet, MaxLen) \cup s.fixed :
      /\ ctx = Ctx
      /\ term = s.term
      /\ input = r
      /\ matcher = NewMatcher(Ctx, r)
      /\ pc = "match"
      /\ ret = <<>>
      /\ lexer = NotationLexer(<<>>)
      /\ err = ""
      /\ memory = <<>>
      /\ other = NoCall

\* if !matcher.match(term)
MatchTerm ==
  /\ pc = "match"
  /\ LET r == match([matcher EXCEPT !.stored = memory], term)
     IN /\ matcher' = r.m
        /\ memory' = r.m.stored
        /\ pc' = IF r.m.fault = Forever THEN "never"
                 ELSE IF r.m.fault # "" THEN "panic"
                 ELSE IF r.ok THEN "matched" ELSE "nomatch"
  /\ UNCHANGED <<ctx, term, input, ret, lexer, err, other>>

\* return nil
ReturnNil ==
  /\ pc = "nomatch"
  /\ ret' = <<>>
  /\ pc' = "done"
  /\ UNCHANGED <<ctx, term, input, matcher, lexer, err, memory, other>>

\* A Match that puts the whole-match capture first.
prependWhole(m) == [m EXCEPT !.captures = <<Capture("", m.result)>> \o @]

\* matcher.captures = append(matcher.captures, Capture{"", matcher.result})
appendWhole(m) == [m EXCEPT !.captures = Append(@, Capture("", m.result))]

\* return matcher.captures
ReturnCaptures ==
  /\ pc = "matched"
  /\ matcher' = appendWhole(matcher)
  /\ ret' = matcher'.captures
  /\ pc' = "done"
  /\ UNCHANGED <<ctx, term, input, lexer, err, memory, other>>

Next == MatchTerm \/ ReturnNil \/ ReturnCaptures

Spec == Init /\ [][Next]_vars

(***************************************************************************)
(* The grammar texts explored: every text of at most MaxChunks chunks of   *)
(* a family's alphabet, and the grammars the tests use.                    *)
(***************************************************************************)
RECURSIVE Concat(_)
Concat(chunks) ==
  IF chunks = <<>> THEN <<>> ELSE Head(chunks) \o Concat(Tail(chunks))

Texts(alphabet, n) == { Concat(chunks) : chunks \in Streams(alphabet, n) }

\* The combinators: juxtaposition, &&, || and |.
Combinators ==
  { <<"a">>, <<" ","b">>, <<" ","|"," ","c">>, <<" ","|","|"," ","d">>,
    <<" ","&","&"," ","e">> }

\* Bracketed groups and the one-character suffixes.
Groups ==
  { <<"["," ">>, <<"a">>, <<" ","]">>, <<"!">>, <<"?">>, <<"*">> }

\* The repeat suffixes.
Repeats ==
  { <<"a">>, <<"a","#">>, <<"{">>, <<"{","2">>, <<",","4">>, <<",">>,
    <<"}">> }

\* Minus signs, digits and the infinity glyph, whole and cut short.
Minuses ==
  { <<"-">>, <<"f">>, <<"5">>, <<" ">>, <<"E2","88","9E">>, <<"E2">> }

\* Commas among keywords and suffixes.
Commas ==
  { <<"a">>, <<" ",","," ">>, <<"?">>, <<"2">>, <<" ","|"," ">> }

\* Types, with a range, and property types.
Types ==
  { <<"<">>, <<"l","e","n","g","t","h">>, <<" ","[","1",",","2","]">>,
    <<">">>, <<"<","'">>, <<"x","'">>, <<"x">> }

\* A zero byte, quoted literals and one-character literals.
Odd ==
  { <<"a">>, <<"|">>, <<Nul>>, <<"\"">>, <<"%">>, <<" ">> }

\* Named sequences and named groups.
Named ==
  { <<"?">>, <<"x">>, <<" ">>, <<"a">>, <<"[">>, <<"]">> }

\* The grammars of the tests, and longer texts of the same kinds.
Grammars ==
  { << "<","i","n","t","e","g","e","r",">" >>,
    << "l","e","f","t"," ","|"," ","r","i","g","h","t"," ","|"," ","c","e",
       "n","t","e","r"," ","|"," ","j","u","s","t","i","f","y" >>,
    << "<","l","e","n","g","t","h",">"," ","|"," ","<","p","e","r","c","e",
       "n","t","a","g","e",">" >>,
    << "<","c","o","l","o","r",">"," ","|"," ","i","n","v","e","r","t" >>,
    << "n","o","n","e"," ","|"," ","u","n","d","e","r","l","i","n","e"," ",
       "|","|"," ","o","v","e","r","l","i","n","e"," ","|","|"," ","l","i",
       "n","e","-","t","h","r","o","u","g","h"," ","|","|"," ","b","l","i",
       "n","k" >>,
    << "["," ","<","f","a","m","i","l","y","-","n","a","m","e",">"," ","|",
       " ","<","g","e","n","e","r","i","c","-","f","a","m","i","l","y",">",
       " ","]","#" >>,
    << "["," ","<","l","e","n","g","t","h",">"," ","|"," ","t","h","i","c",
       "k"," ","|"," ","m","e","d","i","u","m"," ","|"," ","t","h","i","n",
       " ","]","{","1",",","4","}" >>,
    << "["," ","i","n","s","e","t","?"," ","&","&"," ","<","l","e","n","g",
       "t","h",">","{","2",",","4","}"," ","&","&"," ","<","c","o","l","o",
       "r",">","?"," ","]","#"," ","|"," ","n","o","n","e" >>,
    << "[","<","m","i","n","-","x",">",",","?"," ","<","m","i","n","-","y",
       ">",",","?"," ","<","w","i","d","t","h",">",",","?"," ","<","h","e",
       "i","g","h","t",">","]" >>,
    << "a","#","{","2",",","4","}" >>,
    << "a","#","{","2",",","}" >>,
    << "["," ","["," ","a"," ","]","!"," ","b"," ","]" >>,
    << "<","n","u","m","b","e","r"," ","[","0",",","E2","88","9E","]",">" >>,
    << "a","{","1","e","2","}" >>,
    << "-","f","o","o"," ","|"," ","-","5"," ","|"," ","+","5"," ","|"," ",
       "a","+"," ","|"," ","+","E2","88","9E" >>,
    << "a"," ","|"," ","b"," ","|","|"," ","c"," ","&","&"," ","d"," ","e",
       "*" >> }

Families == { Combinators, Groups, Repeats, Minuses, Commas, Types, Odd, Named }

Notations ==
  Grammars \cup UNION { Texts(alphabet, MaxChunks) : alphabet \in Families }

(***************************************************************************)
(* One use of the notation: ParseGrammar(r), or a lexer over r asked for   *)
(* token after token until the end of the text or an error.                *)
(***************************************************************************)
NotationInit ==
  \E r \in Notations :
    /\ ctx = Ctx
    /\ term = NoTerm
    /\ input = r
    /\ matcher = NewMatcher(Ctx, <<>>)
    /\ pc \in {"lex", "parse"}
    /\ ret = <<>>
    /\ lexer = NotationLexer(r)
    /\ err = ""
    /\ memory = <<>>
    /\ other = NoCall

\* l.lex()
LexToken ==
  /\ pc = "lex"
  /\ LET r == lex(lexer)
     IN /\ lexer' = r.l
        /\ err' = r.err
        /\ pc' = IF r.l.fault # "" THEN "never"
                 ELSE IF r.err # "" \/ r.c = Nul THEN "lexed" ELSE "lex"
  /\ UNCHANGED <<ctx, term, input, matcher, ret, memory, other>>

\* term, err := ParseGrammar(r)
ParseGrammarCall ==
  /\ pc = "parse"
  /\ LET r == ParseGrammar(input)
     IN /\ lexer' = r.l
        /\ term' = r.term
        /\ err' = r.err
        /\ pc' = IF r.l.fault # "" THEN "never" ELSE "parsed"
  /\ UNCHANGED <<ctx, input, matcher, ret, memory, other>>

NotationNext == LexToken \/ ParseGrammarCall

NotationSpec == NotationInit /\ [][NotationNext]_vars

(***************************************************************************)
(* Two calls of Match that run at the same time on one Context and one     *)
(* Term tree, each with a reader of its own: the steps of the second call  *)
(* interleave with those of the first.  What the calls share is ctx, term  *)
(* and the memory of the tree.                                             *)
(***************************************************************************)
\* The grammars of the two calls, with the streams over each alphabet and
\* values that match: an AllOf, the shared ratio sub-grammar, a function of
\* the Context and its non-terminals.
SharedScenarios ==
  { Scenario(AllOfOverlap,
             {Ident(<<"a">>), Ident(<<"b">>), Number(<<"1">>)},
             {<< Ident(<<"a">>), Ident(<<"b">>), Number(<<"1">>) >>,
              << Number(<<"1">>), Ident(<<"a">>), Ident(<<"b">>) >>}),
    Scenario(Ratio, {Number(<<"1">>), Delim(<<"/">>), Ident(<<"a">>)},
             {<< Number(<<"1">>), Delim(<<"/">>), Number(<<"1">>),
                 Ident(<<"a">>) >>}),
    Scenario(Calls, {FunctionStart(<<"g">>), Number(<<"1">>), RightParen},
             {<< FunctionStart(<<"g">>), Number(<<"1">>), RightParen >>}),
    Scenario(NonTerminals, {Number(<<"1">>), Ident(<<"a">>)}, {}) }

SharedInit ==
  \E s \in SharedScenarios :
    \E r1, r2 \in Streams(s.alphabet, MaxShared) \cup s.fixed :
      /\ ctx = Ctx
      /\ term = s.term
      /\ input = r1
      /\ matcher = NewMatcher(Ctx, r1)
      /\ pc = "match"
      /\ ret = <<>>
      /\ lexer = NotationLexer(<<>>)
      /\ err = ""
      /\ memory = <<>>
      /\ other = MatchCall(r2)

\* if !matcher.match(term), in the second call
OtherMatchTerm ==
  /\ other.pc = "match"
  /\ LET r == match([other.matcher EXCEPT !.stored = memory], term)
     IN /\ other' = [other EXCEPT
                       !.matcher = r.m,
                       !.pc = IF r.m.fault = Forever THEN "never"
                              ELSE IF r.m.fault # "" THEN "panic"
                              ELSE IF r.ok THEN "matched" ELSE "nomatch"]
        /\ memory' = r.m.stored
  /\ UNCHANGED <<ctx, term, input, matcher, pc, ret, lexer, err>>

\* return nil, in the second call
OtherReturnNil ==
  /\ other.pc = "nomatch"
  /\ other' = [other EXCEPT !.ret = <<>>, !.pc = "done"]
  /\ UNCHANGED <<ctx, term, input, matcher, pc, ret, lexer, err, memory>>

\* return matcher.captures, in the second call
OtherReturnCaptures ==
  /\ other.pc = "matched"
  /\ other' = [other EXCEPT !.matcher = appendWhole(@),
                            !.ret = appendWhole(other.matcher).captures,
                            !.pc = "done"]
  /\ UNCHANGED <<ctx, term, input, matcher, pc, ret, lexer, err, memory>>

SharedNext ==
  \/ MatchTerm \/ ReturnNil \/ ReturnCaptures
  \/ OtherMatchTerm \/ OtherReturnNil \/ OtherReturnCaptures

SharedSpec == SharedInit /\ [][SharedNext]_vars

(***************************************************************************)
(* Vocabulary of the properties.                                           *)
(***************************************************************************)
\* The match calls completed so far, in order of completion.
calls == matcher.calls

\* The value stream as the matcher buffers it: without the whitespace.
NonSpace(r) == SelectSeq(r, LAMBDA tok : tok.type # "WhitespaceToken")

\* The tokens of the stream between two offsets of the matcher.
Consumed(from, to) == SubSeq(NonSpace(input), from + 1, to)

\* The token the matcher sees at an offset, or the end of the stream.
TokenAt(offset) ==
  IF offset < Len(NonSpace(input))
    THEN NonSpace(input)[offset + 1]
    ELSE Token("ErrorToken", <<>>)

\* The calls made directly by call k, in order: those one level deeper
\* that completed between its entry and its return.
ChildrenOf(k) ==
  SelectSeq([i \in 1..(k - 1 - calls[k].first) |-> calls[k].first + i],
            LAMBDA j : calls[j].depth = calls[k].depth + 1)

\* The calls made inside call k, directly or not.
Inside(k) == (calls[k].first + 1)..(k - 1)

\* The matcher as it stood when an observed call was entered.
Resume(pre) ==
  [context |-> ctx, buffer |-> pre.buffer, offset |-> pre.offset,
   lexer |-> [input |-> input, pos |-> pre.pos], result |-> pre.result,
   captures |-> pre.captures, fault |-> "", calls |-> <<>>, depth |-> 0,
   stored |-> <<>>]

\* The top-level call matcher.match(term) of Match, once it has returned.
Top == calls[Len(calls)]

Returned == pc \in {"matched", "nomatch", "done"}

(***************************************************************************)
(* C1. Rollback atomicity: whenever a call match(t) returns false, for any *)
(* kind of term t, the matcher's offset, the length of result and the      *)
(* number of captures are what they were when the call was entered.        *)
(***************************************************************************)
C1_RollbackAtomicity ==
  \A k \in 1..Len(calls) :
    ~calls[k].matched =>
      /\ calls[k].post.offset = calls[k].pre.offset
      /\ Len(calls[k].post.result) = Len(calls[k].pre.result)
      /\ Len(calls[k].post.captures) = Len(calls[k].pre.captures)

\* A BasicType fails on a function application inside which a parameter
\* had matched, consumed tokens and recorded a capture.
C1_Witness ==
  \E k \in 1..Len(calls) :
    /\ ~calls[k].matched
    /\ calls[k].t.kind = "BasicType"
    /\ TokenAt(calls[k].pre.offset).type = "FunctionToken"
    /\ \E j \in Inside(k) :
         /\ calls[j].matched
         /\ calls[j].post.offset > calls[k].pre.offset + 1
         /\ Len(calls[j].post.captures) > Len(calls[k].pre.captures)

(***************************************************************************)
(* C2. Match returns nil exactly when the top-level term does not match;   *)
(* otherwise the list returned is not empty, its last element has the      *)
(* empty name and holds, in input order, every token the match consumed,   *)
(* and the captures of the nested nodes all come before it.                *)
(***************************************************************************)
C2_MatchResult ==
  pc = "done" =>
    /\ (ret = <<>>) <=> ~Top.matched
    /\ Top.matched =>
         /\ Len(ret) >= 1
         /\ ret[Len(ret)].name = ""
         /\ ret[Len(ret)].values = Consumed(0, Top.post.offset)
         /\ SubSeq(ret, 1, Len(ret) - 1) = Top.post.captures

\* A match that skipped whitespace, consumed several tokens and recorded
\* nested captures has returned.
C2_Witness ==
  /\ pc = "done"
  /\ Len(ret) >= 3
  /\ Len(ret[Len(ret)].values) >= 2
  /\ Len(NonSpace(input)) < Len(input)

(***************************************************************************)
(* C3. When a PropertyType name is bound in Context.Properties and the     *)
(* bound term matches at the current position, matching the PropertyType   *)
(* succeeds, consumes exactly the tokens the bound term consumed, and      *)
(* appends exactly one capture named after the property, spanning exactly  *)
(* those tokens.                                                           *)
(***************************************************************************)
C3_PropertyTypeMatches ==
  \A k \in 1..Len(calls) :
    ( /\ calls[k].t.kind = "PropertyType"
      /\ calls[k].t.name \in DOMAIN ctx.Properties
      /\ match(Resume(calls[k].pre), ctx.Properties[calls[k].t.name]).ok ) =>
        /\ calls[k].matched
        /\ calls[k].post.offset = calls[k - 1].post.offset
        /\ calls[k].post.captures =
             Append(calls[k - 1].post.captures,
                    Capture(calls[k].t.name,
                            Consumed(calls[k].pre.offset, calls[k].post.offset)))

(***************************************************************************)
(* C4. A NonTerminal matches if and only if its name is bound in           *)
(* Context.NonTerminals and the bound term matches at the current          *)
(* position.  On success exactly one capture named after the non-terminal  *)
(* is appended, after the captures of the bound term, spanning exactly the *)
(* tokens consumed.  An unbound name fails to match without a panic and    *)
(* leaves offset, result and captures unchanged.                           *)
(***************************************************************************)
C4_NonTerminal ==
  /\ pc # "panic"
  /\ \A k \in 1..Len(calls) :
       calls[k].t.kind = "NonTerminal" =>
         IF calls[k].t.name \in DOMAIN ctx.NonTerminals
           THEN /\ ChildrenOf(k) = <<k - 1>>
                /\ calls[k - 1].t = ctx.NonTerminals[calls[k].t.name]
                /\ calls[k - 1].pre = calls[k].pre
                /\ calls[k].matched <=> calls[k - 1].matched
                /\ calls[k].matched <=>
                     match(Resume(calls[k].pre),
                           ctx.NonTerminals[calls[k].t.name]).ok
                /\ calls[k].matched =>
                     /\ calls[k].post.offset = calls[k - 1].post.offset
                     /\ calls[k].post.result = calls[k - 1].post.result
                     /\ calls[k].post.captures =
                          Append(calls[k - 1].post.captures,
                                 Capture(calls[k].t.name,
                                         Consumed(calls[k].pre.offset,
                                                  calls[k].post.offset)))
           ELSE /\ ~calls[k].matched
                /\ Inside(k) = {}
                /\ calls[k].post = calls[k].pre

\* One run in which an unbound non-terminal failed and a bound one, reached
\* after tokens had been consumed, matched and consumed tokens of its own.
C4_Witness ==
  /\ \E k \in 1..Len(calls) :
       /\ calls[k].t.kind = "NonTerminal"
       /\ calls[k].t.name \notin DOMAIN ctx.NonTerminals
  /\ \E k \in 1..Len(calls) :
       /\ calls[k].t.kind = "NonTerminal"
       /\ calls[k].matched
       /\ calls[k].pre.offset > 0
       /\ calls[k].post.offset > calls[k].pre.offset

(***************************************************************************)
(* C5. AllOf commutativity: for a grammar A && B && C and an input made of *)
(* one valid value for each of A, B and C, the match succeeds in whichever *)
(* of the six orders the three values appear.                              *)
(***************************************************************************)
\* v is a valid value of t: t alone matches it, all of it.
ValidValue(t, v) ==
  /\ v # <<>>
  /\ LET r == match(NewMatcher(ctx, v), t)
     IN r.ok /\ r.m.offset = Len(NonSpace(v))

\* The input is a value of each of the three operands, one after the
\* other, in some order.
OneValueOfEach ==
  /\ term.kind = "AllOf"
  /\ Len(term.ops) = 3
  /\ \E i \in 0..Len(input) : \E j \in i..Len(input) :
       \E p \in {f \in [1..3 -> 1..3] : \A a, b \in 1..3 : f[a] = f[b] => a = b} :
         /\ ValidValue(term.ops[p[1]], SubSeq(input, 1, i))
         /\ ValidValue(term.ops[p[2]], SubSeq(input, i + 1, j))
         /\ ValidValue(term.ops[p[3]], SubSeq(input, j + 1, Len(input)))

C5_AllOfCommutes == (pc = "done" /\ OneValueOfEach) => ret # <<>>

(***************************************************************************)
(* C6. Repeat boundaries: for <number>{2,4} (no commas, one token per      *)
(* repetition) an input offering 1 repetition fails, inputs offering 2, 3  *)
(* or 4 succeed consuming all of them, and with 5 or more available the    *)
(* match succeeds having consumed exactly 4, the operand never attempted a *)
(* fifth time.  In general a Repeat that succeeds completed n repetitions  *)
(* with min <= n <= max.                                                   *)
(***************************************************************************)
\* How many number tokens the stream starts with.
RECURSIVE Leading(_, _)
Leading(toks, type) ==
  IF toks = <<>> \/ toks[1].type # type THEN 0
  ELSE 1 + Leading(Tail(toks), type)

Offered == Leading(NonSpace(input), "NumberToken")

\* The repetitions call k attempted, and those among them that matched.
Completed(k) == SelectSeq(ChildrenOf(k), LAMBDA j : calls[j].matched)

C6_RepeatBoundaries ==
  /\ (Returned /\ term = Repeat24) =>
       /\ Top.matched <=> Offered >= 2
       /\ Top.matched =>
            /\ Top.post.offset = (IF Offered <= 4 THEN Offered ELSE 4)
            /\ Len(ChildrenOf(Len(calls))) <= 4
            /\ Offered >= 5 => Len(ChildrenOf(Len(calls))) = 4
  /\ \A k \in 1..Len(calls) :
       (calls[k].t.kind = "Repeat" /\ calls[k].matched) =>
         /\ calls[k].t.min <= Len(Completed(k))
         /\ Len(Completed(k)) <= calls[k].t.max
         /\ Len(ChildrenOf(k)) <= calls[k].t.max

\* <number>{2,4} has matched a stream that offers six numbers.
C6_Witness ==
  /\ Returned
  /\ term = Repeat24
  /\ Offered >= 6
  /\ Top.matched
  /\ Top.post.offset = 4

(***************************************************************************)
(* C7. OneOf is ordered alternation: the operands are tried in the order   *)
(* listed, all from the same start position; the first that matches        *)
(* decides the tokens consumed and the captures recorded, and no operand   *)
(* after it is attempted, even one that would match too.  So in            *)
(* <family-name> | <generic-family>, family-name accepting any identifier, *)
(* the token sans-serif is captured as family-name.                        *)
(***************************************************************************)
\* Call k tried the operands ops[1..n] in order, from its own start, and
\* every one before the last failed.
TriedInOrder(k, ops) ==
  LET ch == ChildrenOf(k)
  IN /\ Len(ch) >= 1
     /\ Len(ch) <= Len(ops)
     /\ \A i \in 1..Len(ch) :
          /\ calls[ch[i]].t = ops[i]
          /\ calls[ch[i]].pre.offset = calls[k].pre.offset
          /\ calls[ch[i]].pre.result = calls[k].pre.result
          /\ calls[ch[i]].pre.captures = calls[k].pre.captures
          /\ i < Len(ch) => ~calls[ch[i]].matched

RECURSIVE PlaceInRound(_, _)
PlaceInRound(ch, i) ==
  IF i = 1 \/ calls[ch[i - 1]].matched THEN 1
  ELSE PlaceInRound(ch, i - 1) + 1

\* Where the round of the i-th call started: where the call before it
\* left the matcher.
RoundStart(k, ch, i) ==
  IF i = 1 THEN calls[k].pre.offset ELSE calls[ch[i - 1]].post.offset

C8_AnyOfRounds ==
  /\ \A k \in 1..Len(calls) :
       calls[k].t.kind = "AnyOf" =>
         LET ch == ChildrenOf(k)
             ops == calls[k].t.ops
         IN /\ calls[k].matched <=>
                 \E i \in 1..Len(ops) : match(Resume(calls[k].pre), ops[i]).ok
            /\ calls[k].matched <=> \E i \in 1..Len(ch) : calls[ch[i]].matched
            /\ \A i \in 1..Len(ch) :
                 /\ PlaceInRound(ch, i) <= Len(ops)
                 /\ calls[ch[i]].t = ops[PlaceInRound(ch, i)]
                 /\ calls[ch[i]].pre.offset = RoundStart(k, ch, i)
            \* the last round tried every operand and matched none
            /\ Len(ch) >= Len(ops)
            /\ PlaceInRound(ch, Len(ch)) = Len(ops)
            /\ ~calls[ch[Len(ch)]].matched
            /\ calls[k].matched => calls[k].post.offset = calls[k - 1].post.offset
  /\ (pc = "done" /\ term = TextDecoration
        /\ NonSpace(input) = << Ident(<<"o","v","e","r","l","i","n","e">>),
                                Ident(<<"u","n","d","e","r","l","i","n","e">>) >>) =>
       /\ ret # <<>>
       /\ ret[Len(ret)].values = NonSpace(input)

\* An AnyOf in which one operand matched in two rounds, and a later
\* operand matched before an earlier one.
C8_Witness ==
  \E k \in 1..Len(calls) :
    /\ calls[k].t.kind = "AnyOf"
    /\ calls[k].matched
    /\ \E i, j \in 1..Len(ChildrenOf(k)) :
         /\ i < j
         /\ calls[ChildrenOf(k)[i]].matched
         /\ calls[ChildrenOf(k)[j]].matched
         /\ calls[ChildrenOf(k)[i]].t = calls[ChildrenOf(k)[j]].t
    /\ \E i, j \in 1..Len(ChildrenOf(k)) :
         /\ i < j
         /\ calls[ChildrenOf(k)[i]].matched
         /\ calls[ChildrenOf(k)[j]].matched
         /\ calls[ChildrenOf(k)[i]].t = calls[k].t.ops[2]
         /\ calls[ChildrenOf(k)[j]].t = calls[k].t.ops[1]

(***************************************************************************)
(* C9. Captures are returned in completion order: for named references     *)
(* matched left to right (`[<min-x>,? <min-y>,? <width>,? <height>]`       *)
(* against four numbers) the list holds one capture per reference, in the  *)
(* order of the input tokens they consumed, each with exactly the tokens   *)
(* its reference consumed; the captures of inner nodes come before that of *)
(* the named node around them, and the whole-match capture is last.        *)
(***************************************************************************)
\* Call k is a named node that matched.
Capturing(k) ==
  /\ calls[k].matched
  /\ \/ calls[k].t.kind \in {"NonTerminal", "PropertyType"}
     \/ calls[k].t.kind \in {"Seq", "Group"} /\ calls[k].t.name # ""

\* No call around call k failed: what it did was not rolled back.
Kept(k) ==
  \A a \in (k + 1)..Len(calls) : calls[a].first < k => calls[a].matched

\* One capture per named node that matched and was kept, in the order in
\* which the nodes completed, each with the tokens between the offsets at
\* which its node started and ended.
CapturesInCompletionOrder ==
  LET ks == SelectSeq([k \in 1..Len(calls) |-> k],
                      LAMBDA k : Capturing(k) /\ Kept(k))
  IN [i \in 1..Len(ks) |->
        Capture(calls[ks[i]].t.name,
                Consumed(calls[ks[i]].pre.offset, calls[ks[i]].post.offset))]

ViewBoxValue ==
  << Number(<<"0">>), Number(<<"0">>), Number(<<"2","0","0">>),
     Number(<<"3","0","0">>) >>

C9_CompletionOrder ==
  /\ (pc = "done" /\ ret # <<>>) =>
       ret = CapturesInCompletionOrder
               \o << Capture("", Consumed(0, Top.post.offset)) >>
  /\ (pc = "done" /\ term = ViewBox(ZeroOrOne(Literal(<<"?">>)))
        /\ NonSpace(input) = ViewBoxValue) =>
       ret = << Capture("min-x", <<ViewBoxValue[1]>>),
                Capture("min-y", <<ViewBoxValue[2]>>),
                Capture("width", <<ViewBoxValue[3]>>),
                Capture("height", <<ViewBoxValue[4]>>),
                Capture("", ViewBoxValue) >>

\* The viewBox grammar has matched `0 0 200 300`.
C9_Witness ==
  /\ pc = "done"
  /\ term = ViewBox(ZeroOrOne(Literal(<<"?">>)))
  /\ NonSpace(input) = ViewBoxValue
  /\ Len(ret) = 5

(***************************************************************************)
(* C10. When the next token is a function-start token while a BasicType is *)
(* matched, the BasicType matches if and only if the function name (the    *)
(* token's text without the parenthesis) is in Context.Functions, every    *)
(* declared parameter matches in order, a comma being accepted between two *)
(* consecutive parameters but not after the last, a closing parenthesis    *)
(* follows, and the name of the function's return type is the BasicType's. *)
(* On success the function token, the arguments, the commas accepted and   *)
(* the closing parenthesis are all consumed.                               *)
(***************************************************************************)
\* Where the parameter after one that ended at offset e starts: past the
\* comma, if there is one.
PastComma(e) == IF TokenAt(e).type = "CommaToken" THEN e + 1 ELSE e

\* The calls ch are the parameters of fn, in order, each matching from
\* where the one before it ended, the first right after the function token
\* at offset o.
ParametersMatch(fn, ch, o) ==
  /\ Len(ch) = Len(fn.params)
  /\ \A i \in 1..Len(ch) :
       /\ calls[ch[i]].t = fn.params[i]
       /\ calls[ch[i]].matched
       /\ calls[ch[i]].pre.offset =
            (IF i = 1 THEN o + 1 ELSE PastComma(calls[ch[i - 1]].post.offset))

\* The name the function token at the start of call k gives.
CalledName(k) == functionName(TokenAt(calls[k].pre.offset).value)

\* Where the last call made by call k ended.
ArgumentsEnd(k) == calls[k - 1].post.offset

C10_FunctionApplication ==
  \A k \in 1..Len(calls) :
    ( /\ calls[k].t.kind = "BasicType"
      /\ TokenAt(calls[k].pre.offset).type = "FunctionToken" ) =>
        /\ calls[k].matched <=>
             /\ CalledName(k) \in DOMAIN ctx.Functions
             /\ ParametersMatch(ctx.Functions[CalledName(k)], ChildrenOf(k),
                                calls[k].pre.offset)
             /\ TokenAt(ArgumentsEnd(k)).type = "RightParenthesisToken"
             /\ ctx.Functions[CalledName(k)].type.name = calls[k].t.name
        /\ calls[k].matched =>
             /\ calls[k].post.offset = ArgumentsEnd(k) + 1
             /\ calls[k].post.result =
                  calls[k].pre.result
                    \o Consumed(calls[k].pre.offset, calls[k].post.offset)

\* A BasicType matched by a call f(1, 1): function token, two arguments,
\* the comma between them and the parenthesis, after a BasicType of another
\* name had failed on the same call, both arguments matched.
C10_Witness ==
  \E k \in 1..Len(calls) :
    /\ calls[k].t.kind = "BasicType"
    /\ TokenAt(calls[k].pre.offset).type = "FunctionToken"
    /\ calls[k].matched
    /\ calls[k].post.offset = calls[k].pre.offset + 5
    /\ \E j \in 1..(k - 1) :
         /\ calls[j].t.kind = "BasicType"
         /\ calls[j].pre.offset = calls[k].pre.offset
         /\ ~calls[j].matched
         /\ Len(ChildrenOf(j)) = 2

(***************************************************************************)
(* C11. If a function application fails at any step (unknown function      *)
(* name, a parameter that does not match, no closing parenthesis), or the  *)
(* function returns another type than the BasicType expected, then once    *)
(* the BasicType match has returned, offset, result and captures are       *)
(* exactly what they were before the function token was examined: no       *)
(* function token, argument token or argument capture stays recorded.      *)
(***************************************************************************)
C11_FunctionFailureRewinds ==
  \A k \in 1..Len(calls) :
    ( /\ calls[k].t.kind = "BasicType"
      /\ TokenAt(calls[k].pre.offset).type = "FunctionToken"
      /\ ~calls[k].matched ) =>
        /\ calls[k].post.offset = calls[k].pre.offset
        /\ calls[k].post.result = calls[k].pre.result
        /\ calls[k].post.captures = calls[k].pre.captures

\* A function application failed after one of its arguments had matched,
\* consumed a token and recorded a capture.
C11_Witness ==
  \E k \in 1..Len(calls) :
    /\ calls[k].t.kind = "BasicType"
    /\ TokenAt(calls[k].pre.offset).type = "FunctionToken"
    /\ ~calls[k].matched
    /\ \E j \in Inside(k) :
         /\ calls[j].t.kind = "NonTerminal"
         /\ calls[j].matched
         /\ Len(calls[j].post.captures) > Len(calls[k].pre.captures)
         /\ calls[j].post.offset > calls[k].pre.offset + 1


(***************************************************************************)
(* Vocabulary of the properties of the notation.                           *)
(***************************************************************************)
\* ParseGrammar has returned term and err.
ParseReturned == pc = "parsed"

\* The lexer has read the whole text, or holds a zero byte of it, which it
\* takes for the end of the text.
TextEnded ==
  \/ lexer.pos = Len(input)
  \/ lexer.nb = 1 /\ lexer.buf = Nul /\ lexer.err = ""

RECURSIVE LexAll(_)
\* Every call of lex() up to the end of the text or an error.
LexAll(l) ==
  With(lex(l), LAMBDA r :
    IF r.err # "" \/ r.c = Nul THEN r.l.lexed ELSE LexAll(r.l))

\* The tokens of the text, without the end that closes them.
TokensOf(text) ==
  SubSeq(LexAll(NotationLexer(text)), 1, Len(LexAll(NotationLexer(text))) - 1)

\* How many brackets are open before place i of T.
Level(T, i) ==
  Cardinality({j \in 1..(i - 1) : T[j].token = "["})
    - Cardinality({j \in 1..(i - 1) : T[j].token = "]"})

\* The places of T that hold sep outside every bracket.
Cuts(T, sep) == {i \in 1..Len(T) : T[i].token = sep /\ Level(T, i) = 0}

First(S) == CHOOSE i \in S : \A j \in S : i <= j

RECURSIVE Pieces(_, _)
\* What the cuts at sep leave of T, in source order.
Pieces(T, sep) ==
  IF Cuts(T, sep) = {} THEN << T >>
  ELSE << SubSeq(T, 1, First(Cuts(T, sep)) - 1) >>
         \o Pieces(SubSeq(T, First(Cuts(T, sep)) + 1, Len(T)), sep)

\* The places after the first of T that hold tok with no bracket open after.
ClosingAt(T, tok) ==
  {i \in 2..Len(T) : T[i].token = tok /\ Level(T, i + 1) = 0}

\* The length of the group, type, keyword or literal that T starts with.
AtomLen(T) ==
  CASE T[1].token = "[" /\ ClosingAt(T, "]") # {} -> First(ClosingAt(T, "]"))
    [] T[1].token = "<" /\ ClosingAt(T, ">") # {} -> First(ClosingAt(T, ">"))
    [] T[1].token = "[" /\ ClosingAt(T, "]") = {} -> Len(T)
    [] T[1].token = "<" /\ ClosingAt(T, ">") = {} -> Len(T)
    [] OTHER -> 1

\* The length of the brace clause that S starts with.
BraceLen(S) ==
  IF ClosingAt(S, "}") # {} THEN First(ClosingAt(S, "}")) ELSE Len(S)

\* The length of the multiplier suffix that S starts with, 0 if none.
SuffixLen(S) ==
  CASE S = <<>> -> 0
    [] S[1].token \in {"*", "+", "?", "!"} -> 1
    [] S[1].token = "{" -> BraceLen(S)
    [] S[1].token = "#" /\ Len(S) >= 2 /\ S[2].token = "{"
         -> 1 + BraceLen(Tail(S))
    [] S[1].token = "#" /\ ~(Len(S) >= 2 /\ S[2].token = "{") -> 1
    [] OTHER -> 0

IsCount(lexeme) == lexeme.token = numberToken /\ ParseInt(lexeme.value).ok

\* The Repeat that the brace clause B makes of atom, NoTerm if B is none.
Repeated(atom, B, commas) ==
  CASE Len(B) = 3 /\ IsCount(B[2]) /\ B[3].token = "}"
         -> Repeat(ParseInt(B[2].value).n, ParseInt(B[2].value).n, commas, atom)
    [] Len(B) = 4 /\ IsCount(B[2]) /\ B[3].token = "," /\ B[4].token = "}"
         -> Repeat(ParseInt(B[2].value).n, MaxInt64, commas, atom)
    [] Len(B) = 5 /\ IsCount(B[2]) /\ B[3].token = "," /\ IsCount(B[4])
                 /\ B[5].token = "}"
         -> Repeat(ParseInt(B[2].value).n, ParseInt(B[4].value).n, commas, atom)
    [] OTHER -> NoTerm

\* The term that the suffix S makes of atom.
WithSuffix(atom, S) ==
  CASE S = <<>> -> atom
    [] S[1].token = "*" -> ZeroOrMore(atom)
    [] S[1].token = "+" -> OneOrMore(atom)
    [] S[1].token = "?" -> ZeroOrOne(atom)
    [] S[1].token = "!" /\ atom.kind = "Group" -> [atom EXCEPT !.required = TRUE]
    [] S[1].token = "{" -> Repeated(atom, S, FALSE)
    [] S[1].token = "#" /\ Len(S) = 1 -> Repeat(1, MaxInt64, TRUE, atom)
    [] S[1].token = "#" /\ Len(S) > 1 -> Repeated(atom, Tail(S), TRUE)
    [] OTHER -> NoTerm

IsFloat(lexeme) == lexeme.token = numberToken /\ ParseFloat(lexeme.value).ok

\* The type that stands between "<" and ">".
TypeOf(I) ==
  CASE Len(I) = 1 /\ I[1].token = identToken
         -> IF I[1].value \in BasicTypeNames THEN RangedType(I[1].value, NoRange)
            ELSE NonTerminal(I[1].value)
    [] Len(I) = 3 /\ I[1].token = "'" /\ I[2].token = identToken
                 /\ I[3].token = "'"
         -> PropertyType(I[2].value)
    [] Len(I) = 6 /\ I[1].token = identToken /\ I[1].value \in RangedTypeNames
                 /\ I[2].token = "[" /\ IsFloat(I[3]) /\ I[4].token = ","
                 /\ IsFloat(I[5]) /\ I[6].token = "]"
         -> RangedType(I[1].value, Range(ParseFloat(I[3].value).f,
                                         ParseFloat(I[5].value).f))
    [] OTHER -> NoTerm

RECURSIVE Expected(_)

\* The group that stands between "[" and "]".
GroupOf(I) ==
  IF Len(I) >= 2 /\ I[1].token = "?" /\ I[2].token = identToken
    THEN Group(I[2].value, FALSE, Expected(SubSeq(I, 3, Len(I))))
    ELSE Group(<<>>, FALSE, Expected(I))

Atom(A) ==
  CASE Len(A) = 1 /\ A[1].token = identToken -> Keyword(A[1].value)
    [] Len(A) = 1 /\ A[1].token = literalToken -> Literal(A[1].value)
    [] Len(A) >= 2 /\ A[1].token = "[" /\ A[Len(A)].token = "]"
         -> GroupOf(SubSeq(A, 2, Len(A) - 1))
    [] Len(A) >= 2 /\ A[1].token = "<" /\ A[Len(A)].token = ">"
         -> TypeOf(SubSeq(A, 2, Len(A) - 1))
    [] OTHER -> NoTerm

\* The length of the multiplier that T starts with.
ItemLen(T) == AtomLen(T) + SuffixLen(SubSeq(T, AtomLen(T) + 1, Len(T)))

\* The multiplier that T starts with.
Item(T) ==
  WithSuffix(Atom(SubSeq(T, 1, AtomLen(T))),
             SubSeq(T, AtomLen(T) + 1, ItemLen(T)))

RECURSIVE Items(_)
\* The multipliers that T juxtaposes, in source order.
Items(T) ==
  IF T = <<>> THEN <<>>
  ELSE << Item(T) >> \o Items(SubSeq(T, ItemLen(T) + 1, Len(T)))

Juxtaposed(T) ==
  CASE T = <<>> -> NoTerm
    [] Len(T) = 2 /\ T[1].token = "?" /\ T[2].token = identToken -> NoTerm
    [] Len(T) > 2 /\ T[1].token = "?" /\ T[2].token = identToken
         -> SeqTerm(T[2].value, Items(SubSeq(T, 3, Len(T))))
    [] ItemLen(T) = Len(T) -> Item(T)
    [] OTHER -> SeqTerm(<<>>, Items(T))

Expected(T) ==
  CASE Cuts(T, "|") # {}
         -> OneOf([k \in 1..Len(Pieces(T, "|")) |-> Expected(Pieces(T, "|")[k])])
    [] Cuts(T, "|") = {} /\ Cuts(T, anyOfToken) # {}
         -> AnyOf([k \in 1..Len(Pieces(T, anyOfToken)) |->
                    Expected(Pieces(T, anyOfToken)[k])])
    [] Cuts(T, "|") = {} /\ Cuts(T, anyOfToken) = {} /\ Cuts(T, allOfToken) # {}
         -> AllOf([k \in 1..Len(Pieces(T, allOfToken)) |->
                    Juxtaposed(Pieces(T, allOfToken)[k])])
    [] OTHER -> Juxtaposed(T)

RECURSIVE Valid(_)
\* t is a term throughout.
Valid(t) == t.kind # "nil" /\ \A i \in DOMAIN t.ops : Valid(t.ops[i])

\* The term the whole text stands for.
Meant == Expected(TokensOf(input))

\* No combinator holds a looser or equal one as a direct operand, a Seq
\* holds no combinator, and a multiplier holds a group, type, keyword or
\* literal.
Looser(kind) ==
  CASE kind = "OneOf" -> {"OneOf"}
    [] kind = "AnyOf" -> {"OneOf", "AnyOf"}
    [] kind = "AllOf" -> {"OneOf", "AnyOf", "AllOf"}
    [] kind = "Seq" -> {"OneOf", "AnyOf", "AllOf", "Seq"}
    [] kind \in {"ZeroOrMore", "OneOrMore", "ZeroOrOne", "Repeat"}
         -> {"OneOf", "AnyOf", "AllOf", "Seq",
             "ZeroOrMore", "OneOrMore", "ZeroOrOne", "Repeat"}
    [] OTHER -> {}

RECURSIVE Nested(_)
Nested(t) ==
  \A i \in DOMAIN t.ops :
    t.ops[i].kind \notin Looser(t.kind) /\ Nested(t.ops[i])

\* The text-decoration grammar of the tests.
TextDecorationText ==
  << "n","o","n","e"," ","|"," ","u","n","d","e","r","l","i","n","e"," ",
     "|","|"," ","o","v","e","r","l","i","n","e"," ","|","|"," ","l","i",
     "n","e","-","t","h","r","o","u","g","h"," ","|","|"," ","b","l","i",
     "n","k" >>

\* The box-shadow grammar of the tests.
BoxShadowText ==
  << "["," ","i","n","s","e","t","?"," ","&","&"," ","<","l","e","n","g",
     "t","h",">","{","2",",","4","}"," ","&","&"," ","<","c","o","l","o",
     "r",">","?"," ","]","#"," ","|"," ","n","o","n","e" >>

\* Every combinator once, loosest first.
MixedText ==
  << "a"," ","|"," ","b"," ","|","|"," ","c"," ","&","&"," ","d"," ","e","*" >>

\* OneOf[Repeat(Group(AllOf[inset?, <length>{2,4}, <color>?])), none]
BoxShadowMeant ==
  OneOf(<< Repeat(1, MaxInt64, TRUE,
             Group(<<>>, FALSE,
               AllOf(<< ZeroOrOne(Keyword(<<"i","n","s","e","t">>)),
                        Repeat(2, 4, FALSE,
                               RangedType(<<"l","e","n","g","t","h">>, NoRange)),
                        ZeroOrOne(RangedType(<<"c","o","l","o","r">>,
                                             NoRange)) >>))),
           Keyword(<<"n","o","n","e">>) >>)

(***************************************************************************)
(* C13. The combinators bind `|` loosest, then `||`, `&&`, juxtaposition,  *)
(* and the multiplier suffix tightest: whenever the tokens of the text are *)
(* a term of the notation, ParseGrammar returns without error the tree     *)
(* that the cuts at the loosest combinator give, operands in source order  *)
(* (so the text-decoration and box-shadow grammars of the tests give       *)
(* OneOf[none, AnyOf[...]] and OneOf[Repeat(Group(AllOf[...])), none]);    *)
(* and in every tree returned OneOf is outside AnyOf, outside AllOf,       *)
(* outside Seq, outside the multiplier nodes.                              *)
(***************************************************************************)
C13_Precedence ==
  ParseReturned =>
    /\ Valid(Meant) => (err = "" /\ term = Meant)
    /\ err = "" => Nested(term)
    /\ input = TextDecorationText => term = TextDecoration
    /\ input = BoxShadowText => term = BoxShadowMeant

\* The text with every combinator was parsed: `|` of a keyword and `||`,
\* `||` of a keyword and `&&`, `&&` of a keyword and a juxtaposition that
\* ends in a multiplier.
C13_Witness ==
  /\ ParseReturned
  /\ input = MixedText
  /\ Valid(Meant)
  /\ term.kind = "OneOf"
  /\ term.ops[2].kind = "AnyOf"
  /\ term.ops[2].ops[2].kind = "AllOf"
  /\ term.ops[2].ops[2].ops[2].kind = "Seq"
  /\ term.ops[2].ops[2].ops[2].ops[2].kind = "ZeroOrMore"

RECURSIVE Collapsed(_)
\* Every OneOf, AnyOf and AllOf of t has two operands or more, every Seq
\* two operands or more or a name.
Collapsed(t) ==
  /\ t.kind \in {"OneOf", "AnyOf", "AllOf"} => Len(t.ops) >= 2
  /\ t.kind = "Seq" => (Len(t.ops) >= 2 \/ t.name # <<>>)
  /\ \A i \in DOMAIN t.ops : Collapsed(t.ops[i])

(***************************************************************************)
(* C14. In every tree ParseGrammar returns, each OneOf, AnyOf and AllOf    *)
(* has at least two operands and each Seq at least two operands or a       *)
(* name: a level that parsed one operand returns the operand itself.       *)
(***************************************************************************)
C14_SingleOperandCollapses ==
  (ParseReturned /\ err = "") => Collapsed(term)

(***************************************************************************)
(* The suffixes that parseMultiplier met.  e is an entry of                *)
(* lexer.suffixed: the operand, and the places in lexer.lexed of the       *)
(* token after the operand and of the last token lexed at the return.      *)
(***************************************************************************)
\* The operand is followed by `#`.
Hashed(e) == lexer.lexed[e.from].token = "#"

\* Where the `{` of a repeat clause of e would be.
BraceAt(e) == IF Hashed(e) THEN e.from + 1 ELSE e.from

\* The operand is followed by a repeat clause: `{` or `#{`.
Braced(e) == BraceAt(e) <= e.to /\ lexer.lexed[BraceAt(e)].token = "{"

\* The lexemes from the `{` to the last one lexed: the clause and the
\* token after it, or the clause up to the token that is not of it.
Clause(e) == SubSeq(lexer.lexed, BraceAt(e), e.to)

\* Where the `}` of the clause B is, if B is {m}, {m,} or {m,n}; else 0.
ClosedAt(B) ==
  CASE Len(B) >= 3 /\ Repeated(NoTerm, SubSeq(B, 1, 3), FALSE) # NoTerm -> 3
    [] Len(B) >= 4 /\ Repeated(NoTerm, SubSeq(B, 1, 4), FALSE) # NoTerm -> 4
    [] Len(B) >= 5 /\ Repeated(NoTerm, SubSeq(B, 1, 5), FALSE) # NoTerm -> 5
    [] OTHER -> 0

\* `#` not followed by `{`, read to the end of the text or to a token.
BareHash(e) ==
  /\ Hashed(e)
  /\ e.to = e.from + 1
  /\ lexer.lexed[e.to].token # "{"
  /\ lexer.lexed[e.to].err \in {"", "EOF"}

\* The clause breaks off where m is required: after `{` comes no number.
NumberMissing(e) ==
  /\ Braced(e)
  /\ Len(Clause(e)) = 2
  /\ Clause(e)[2].token # numberToken

\* The clause breaks off where only `}` can close it: after {m comes
\* neither `,` nor `}`, after {m, neither a number nor `}`, after {m,n no `}`.
BraceMissing(e) ==
  /\ Braced(e)
  /\ \/ /\ Len(Clause(e)) = 3
        /\ IsCount(Clause(e)[2])
        /\ Clause(e)[3].token \notin {",", "}"}
     \/ /\ Len(Clause(e)) = 4
        /\ IsCount(Clause(e)[2])
        /\ Clause(e)[3].token = ","
        /\ Clause(e)[4].token \notin {numberToken, "}"}
     \/ /\ Len(Clause(e)) = 5
        /\ IsCount(Clause(e)[2])
        /\ Clause(e)[3].token = ","
        /\ IsCount(Clause(e)[4])
        /\ Clause(e)[5].token # "}"

\* The lexeme at which the clause of e breaks off.
BrokenAt(e) == Clause(e)[Len(Clause(e))]

\* The suffixes compile as the claim says.
RepeatsCompile(e) ==
  /\ BareHash(e) =>
       (e.err = "" /\ e.term = Repeat(1, MaxInt64, TRUE, e.operand))
  /\ (Braced(e) /\ ClosedAt(Clause(e)) # 0
        /\ lexer.lexed[e.to].err \in {"", "EOF"}) =>
       /\ e.err = ""
       /\ e.term = Repeated(e.operand,
                            SubSeq(Clause(e), 1, ClosedAt(Clause(e))),
                            Hashed(e))

Banged(e) == lexer.lexed[e.from].token = "!"

RECURSIVE Sum(_)
Sum(s) == IF s = <<>> THEN 0 ELSE Head(s) + Sum(Tail(s))

RECURSIVE RequiredGroups(_)
\* How many nodes of t have Required set.
RequiredGroups(t) ==
  (IF t.required THEN 1 ELSE 0)
    + Sum([i \in DOMAIN t.ops |-> RequiredGroups(t.ops[i])])

\* The places of lexer.lexed that hold `!`.
Bangs == {i \in 1..Len(lexer.lexed) : lexer.lexed[i].token = "!"}

(***************************************************************************)
(* C16. `!` is accepted only after a Group: parseMultiplier makes of a     *)
(* Group followed by `!` that Group with Required set and nothing else     *)
(* changed, and of any other term followed by `!` an error and no Term,    *)
(* with which ParseGrammar fails.  So in a text that ParseGrammar accepts  *)
(* every `!` follows a `]`, and the tree has as many required nodes, all   *)
(* of them Groups, as the text has `!`.                                    *)
(***************************************************************************)
C16_RequiredOnlyOnGroups ==
  ParseReturned =>
    /\ \A k \in 1..Len(lexer.suffixed) :
         Banged(lexer.suffixed[k]) =>
           IF lexer.suffixed[k].operand.kind = "Group"
             THEN \/ lexer.suffixed[k].term =
                       [lexer.suffixed[k].operand EXCEPT !.required = TRUE]
                  \/ /\ lexer.suffixed[k].err \notin {"", "EOF"}
                     /\ lexer.suffixed[k].err = lexer.lexed[lexer.suffixed[k].to].err
             ELSE /\ lexer.suffixed[k].term = NoTerm
                  /\ lexer.suffixed[k].err = "expected a group"
                  /\ term = NoTerm
                  /\ err = "expected a group"
    /\ err = "" =>
         /\ \A i \in Bangs : i > 1 /\ lexer.lexed[i - 1].token = "]"
         /\ RequiredGroups(term) = Cardinality(Bangs)

\* [ [ a ]! b ] was parsed: the inner Group is required, the outer is not.
C16_Witness ==
  /\ ParseReturned
  /\ err = ""
  /\ Cardinality(Bangs) = 1
  /\ term.kind = "Group"
  /\ ~term.required
  /\ Operand(term).kind = "Seq"
  /\ Operand(term).ops[1] = Group(<<>>, TRUE, Keyword(<<"a">>))

(***************************************************************************)
(* C17. A Group with Required set must produce at least one value: no      *)
(* match of a required Group succeeds with nothing consumed and nothing    *)
(* added to the result.                                                    *)
(***************************************************************************)
C17_RequiredGroupProduces ==
  \A k \in 1..Len(calls) :
    ( /\ calls[k].t.kind = "Group"
      /\ calls[k].t.required
      /\ calls[k].matched ) =>
        /\ calls[k].post.offset > calls[k].pre.offset
        /\ Len(calls[k].post.result) > Len(calls[k].pre.result)

(***************************************************************************)
(* The lexemes of the notation.  x is an entry of lexer.lexed: the token   *)
(* and value of one call of lex(), and the bytes x.from + 1 .. x.to of the *)
(* text that the call used up.                                             *)
(***************************************************************************)
\* The bytes i + 1 .. i + Len(bytes) of the text are bytes.
Follows(i, bytes) ==
  i + Len(bytes) <= Len(input) /\ SubSeq(input, i + 1, i + Len(bytes)) = bytes

\* The call found a minus sign as its first byte.
LeadingMinus(x) == Follows(x.from, << "-" >>)

\* The bytes the call used up, which for ASCII text are its characters.
Source(x) == SubSeq(input, x.from + 1, x.to)

(***************************************************************************)
(* C18. A `-` followed by a digit or by the infinity glyph gives one       *)
(* number token whose text is the `-` and the characters of the number in  *)
(* source order; a `-` followed by an identifier-start character gives one *)
(* ident token whose text is the `-` and the characters of the identifier  *)
(* in source order; any other `-` is the token `-`, and what follows it is *)
(* not consumed.                                                           *)
(***************************************************************************)
C18_LeadingMinus ==
  \A i \in 1..Len(lexer.lexed) :
    LeadingMinus(lexer.lexed[i]) =>
      CASE Follows(lexer.lexed[i].from + 1, InfinityBytes)
             -> /\ lexer.lexed[i].token = numberToken
                /\ lexer.lexed[i].value = << "-", Infinity >>
                /\ lexer.lexed[i].to = lexer.lexed[i].from + 4
        [] \E d \in Digits : Follows(lexer.lexed[i].from + 1, << d >>)
             -> /\ lexer.lexed[i].token = numberToken
                /\ lexer.lexed[i].value = Source(lexer.lexed[i])
        [] \E c \in {"-", "_"} \cup Letters :
             Follows(lexer.lexed[i].from + 1, << c >>)
             -> /\ lexer.lexed[i].token = identToken
                /\ lexer.lexed[i].value = Source(lexer.lexed[i])
        [] OTHER
             -> /\ lexer.lexed[i].token = "-"
                /\ lexer.lexed[i].to = lexer.lexed[i].from + 1

(***************************************************************************)
(* C19. Where a token starts with the bytes E2 88 9E of the infinity       *)
(* glyph, the lexer decodes them as one rune and returns one number token  *)
(* whose text is the glyph, using up exactly these three bytes.            *)
(***************************************************************************)
C19_InfinityIsANumber ==
  \A i \in 1..Len(lexer.lexed) :
    Follows(lexer.lexed[i].from, InfinityBytes) =>
      /\ lexer.lexed[i].token = numberToken
      /\ lexer.lexed[i].value = << Infinity >>
      /\ lexer.lexed[i].to = lexer.lexed[i].from + 3

\* The operand of e is the term made of a comma: the token before the one
\* that follows the operand is `,`.
CommaTerm(e) == e.from > 1 /\ lexer.lexed[e.from - 1].token = ","

(***************************************************************************)
(* C20. A comma outside a bracketed range or a repeat clause is parsed as  *)
(* the literal term whose text is `,`, whatever token follows it, and the  *)
(* token that follows is then parsed as usual: if it is the suffix `?`,    *)
(* the term is ZeroOrOne{Literal(",")}.                                    *)
(***************************************************************************)
C20_CommaIsALiteral ==
  \A k \in 1..Len(lexer.suffixed) :
    CommaTerm(lexer.suffixed[k]) =>
      /\ lexer.suffixed[k].operand = Literal(<< "," >>)
      /\ ( /\ lexer.lexed[lexer.suffixed[k].from].token = "?"
           /\ lexer.suffixed[k].err = "" ) =>
             lexer.suffixed[k].term = ZeroOrOne(Literal(<< "," >>))

\* Call k is the match of a Repeat whose commas flag is set.
CommaRepeat(k) == calls[k].t.kind = "Repeat" /\ calls[k].t.commas

\* The offset at which call k left its loop: after its last attempt.
LoopEnd(k) ==
  IF ChildrenOf(k) = <<>> THEN calls[k].pre.offset
  ELSE calls[ChildrenOf(k)[Len(ChildrenOf(k))]].post.offset

\* The last repetition call k attempted failed.
OperandFailed(k) ==
  /\ ChildrenOf(k) # <<>>
  /\ ~calls[ChildrenOf(k)[Len(ChildrenOf(k))]].matched

(***************************************************************************)
(* C21. In a Repeat with commas set, every repetition after the first      *)
(* starts right after a comma that the Repeat consumed where the           *)
(* repetition before it ended.  The Repeat stops and returns n >= min, n   *)
(* being the repetitions completed, when the operand fails, when n         *)
(* reaches max or when the stream is exhausted; when a token follows       *)
(* that is not a comma, it fails even if n >= min.                         *)
(***************************************************************************)
C21_CommaRepeat ==
  \A k \in 1..Len(calls) :
    CommaRepeat(k) =>
      LET ch == ChildrenOf(k)
          n == Len(Completed(k))
          c == calls[k]
      IN /\ \A i \in 1..Len(ch) :
              /\ calls[ch[i]].t = Operand(c.t)
              /\ i = 1 => calls[ch[i]].pre.offset = c.pre.offset
              /\ i > 1 =>
                   /\ calls[ch[i - 1]].matched
                   /\ TokenAt(calls[ch[i - 1]].post.offset).type = "CommaToken"
                   /\ calls[ch[i]].pre.offset = calls[ch[i - 1]].post.offset + 1
                   /\ calls[ch[i]].pre.result =
                        Append(calls[ch[i - 1]].post.result,
                               TokenAt(calls[ch[i - 1]].post.offset))
         /\ IF OperandFailed(k) \/ n >= c.t.max
                \/ TokenAt(LoopEnd(k)).type = "ErrorToken"
              THEN c.matched <=> n >= c.t.min
              ELSE /\ n > 0
                   /\ TokenAt(LoopEnd(k)).type # "CommaToken"
                   /\ ~c.matched

\* A Repeat with commas has completed min repetitions or more, met a token
\* that is not a comma, and failed.
C21_Witness ==
  \E k \in 1..Len(calls) :
    /\ CommaRepeat(k)
    /\ Len(Completed(k)) >= calls[k].t.min
    /\ Len(Completed(k)) >= 2
    /\ ~OperandFailed(k)
    /\ TokenAt(LoopEnd(k)).type \notin {"ErrorToken", "CommaToken"}
    /\ ~calls[k].matched

\* The terms of the calls in the list ch.
TermsOf(ch) == [i \in 1..Len(ch) |-> calls[ch[i]].t]

\* seq without its i-th element.
Without(seq, i) == SubSeq(seq, 1, i - 1) \o SubSeq(seq, i + 1, Len(seq))

\* The attempts ch are those of the rounds of call k from here on, a round
\* standing at offset `at` with the terms `pending` left and about to try
\* the i-th of them; and call k returned what these rounds decide.
RECURSIVE AllOfRounds(_, _, _, _, _)
AllOfRounds(k, ch, pending, i, at) ==
  IF pending = <<>>
    THEN ch = <<>> /\ calls[k].matched /\ calls[k].post.offset = at
  ELSE IF i = 1 /\ TokenAt(at).type = "ErrorToken"
    THEN ch = <<>> /\ ~calls[k].matched
  ELSE IF i > Len(pending)
    THEN ch = <<>> /\ ~calls[k].matched
  ELSE /\ ch # <<>>
       /\ calls[ch[1]].t = pending[i]
       /\ calls[ch[1]].pre.offset = at
       /\ IF calls[ch[1]].matched
            THEN AllOfRounds(k, Tail(ch), Without(pending, i), 1,
                             calls[ch[1]].post.offset)
            ELSE AllOfRounds(k, Tail(ch), pending, i + 1, at)

\* The sequences a and b hold the same elements, each as many times.
Permuted(a, b) ==
  /\ Len(a) = Len(b)
  /\ \E f \in [1..Len(a) -> 1..Len(a)] :
       /\ \A i, j \in 1..Len(a) : f[i] = f[j] => i = j
       /\ \A i \in 1..Len(a) : a[i] = b[f[i]]

(***************************************************************************)
(* C22. AllOf runs rounds over a pending list that starts as all its       *)
(* operands.  A round that finds the stream exhausted fails the AllOf,     *)
(* whatever is pending; otherwise the pending operands are tried in their  *)
(* original order from the same offset, the first that matches is removed  *)
(* and the next round starts where it ended; a round in which none         *)
(* matches fails the AllOf, and the AllOf succeeds when nothing is         *)
(* pending.  On success every operand has matched exactly once, and no     *)
(* Operands array of the Term tree is ever written.                        *)
(***************************************************************************)
C22_AllOfRounds ==
  /\ DOMAIN matcher.stored = {}
  /\ \A k \in 1..Len(calls) :
       calls[k].t.kind = "AllOf" =>
         /\ AllOfRounds(k, ChildrenOf(k), calls[k].t.ops, 1,
                        calls[k].pre.offset)
         /\ calls[k].matched =>
              Permuted(TermsOf(Completed(k)), calls[k].t.ops)

\* An AllOf has failed on an exhausted stream after a round that matched,
\* with nothing pending but operands that match the empty input.
C22_Witness ==
  \E k \in 1..Len(calls) :
    /\ calls[k].t.kind = "AllOf"
    /\ ~calls[k].matched
    /\ ChildrenOf(k) # <<>>
    /\ calls[ChildrenOf(k)[Len(ChildrenOf(k))]].matched
    /\ TokenAt(LoopEnd(k)).type = "ErrorToken"
    /\ Len(Completed(k)) = 2
    /\ \A i \in 1..Len(calls[k].t.ops) :
         calls[k].t.ops[i].kind # "ZeroOrOne" =>
           \E j \in 1..Len(Completed(k)) :
             calls[Completed(k)[j]].t = calls[k].t.ops[i]

\* No token of toks is white space or the error/end token.
Real(toks) ==
  \A i \in 1..Len(toks) :
    toks[i].type \notin {"WhitespaceToken", "ErrorToken"}

\* Every capture of the list holds real tokens only.
RealCaptures(captures) ==
  \A i \in 1..Len(captures) : Real(captures[i].values)

\* An observed matcher holds real tokens only.
RealMatcher(o) == Real(o.buffer) /\ Real(o.result) /\ RealCaptures(o.captures)

(***************************************************************************)
(* C23. No token with the whitespace type or the error/end type is ever    *)
(* in the matcher's buffer, its result or a capture, at the entry or the   *)
(* return of any match call and in what Match returns; and a call that is  *)
(* entered on the exhausted stream consumes nothing: the error/end token   *)
(* is matched by no term.                                                  *)
(***************************************************************************)
C23_NoSpaceNoEnd ==
  /\ RealMatcher(Observed(matcher))
  /\ RealCaptures(ret)
  /\ \A k \in 1..Len(calls) :
       /\ RealMatcher(calls[k].pre)
       /\ RealMatcher(calls[k].post)
       /\ calls[k].post.offset <= Len(NonSpace(input))
       /\ TokenAt(calls[k].pre.offset).type = "ErrorToken" =>
            calls[k].post.offset = calls[k].pre.offset

\* Match has returned captures for a stream with white space in it, after
\* a call was entered on the exhausted stream.
C23_Witness ==
  /\ pc = "done"
  /\ ret # <<>>
  /\ ~Real(input)
  /\ Len(input) > Len(ret[Len(ret)].values)
  /\ \E k \in 1..Len(calls) :
       /\ TokenAt(calls[k].pre.offset).type = "ErrorToken"
       /\ calls[k].t.kind \in {"Keyword", "BasicType", "Literal"}

\* The faults of a matcher that reads or consumes past its buffer.
Underflows ==
  {"buffer underflow", "index out of range", "slice bounds out of range"}

\* Call k consumed tokens.
Consuming(k) == calls[k].post.offset > calls[k].pre.offset

(***************************************************************************)
(* C24. Buffer underflow is unreachable: chomp is never called on an       *)
(* empty buffer or with the offset at the end of the buffer, and peek      *)
(* never slices past the buffer, so Match raises none of these faults;     *)
(* the offset is within the buffer at the entry and the return of every    *)
(* match call, and every token consumed is a token that was buffered.      *)
(***************************************************************************)
C24_NoUnderflow ==
  /\ matcher.fault \notin Underflows
  /\ matcher.offset \in 0..Len(matcher.buffer)
  /\ \A k \in 1..Len(calls) :
       /\ calls[k].pre.offset \in 0..Len(calls[k].pre.buffer)
       /\ calls[k].post.offset \in 0..Len(calls[k].post.buffer)
       /\ Consuming(k) =>
            SubSeq(calls[k].post.result, Len(calls[k].pre.result) + 1,
                   Len(calls[k].post.result))
              = SubSeq(calls[k].post.buffer, calls[k].pre.offset + 1,
                       calls[k].post.offset)

\* Match has consumed a whole stream of MaxLen tokens, tokens that an
\* earlier attempt, since rolled back, had consumed before.
C24_Witness ==
  /\ pc = "done"
  /\ matcher.fault = ""
  /\ matcher.offset = MaxLen
  /\ Len(matcher.buffer) = MaxLen
  /\ \E j, k \in 1..Len(calls) :
       /\ j < k
       /\ ~calls[j].matched
       /\ \E i \in Inside(j) : Consuming(i)
       /\ Consuming(k)
       /\ calls[k].pre.offset = calls[j].pre.offset
       /\ Len(calls[k].pre.buffer) > calls[k].pre.offset

\* The captures Match(ctx, term, r) returns when it runs alone on the tree
\* as it was built.
Alone(r) ==
  LET m == match(NewMatcher(ctx, r), term)
  IN IF m.ok THEN appendWhole(m.m).captures ELSE <<>>

(***************************************************************************)
(* C25. Match writes nothing that calls share: the Context is the one      *)
(* given, no Operands array of the Term tree is written, and each call's   *)
(* matcher reads its own stream.  So of two calls that run at the same     *)
(* time on the same Term and Context, under every interleaving of their    *)
(* steps, each returns the captures it returns when it runs alone.         *)
(***************************************************************************)
C25_ConcurrentCalls ==
  /\ ctx = Ctx
  /\ DOMAIN memory = {}
  /\ matcher.context = ctx /\ other.matcher.context = ctx
  /\ matcher.lexer.input = input
  /\ other.matcher.lexer.input = other.input
  /\ pc = "done" => ret = Alone(input)
  /\ other.pc = "done" => other.ret = Alone(other.input)
  /\ pc \in {"matched", "nomatch"} => (pc = "matched" <=> Alone(input) # <<>>)
  /\ other.pc \in {"matched", "nomatch"} =>
       (other.pc = "matched" <=> Alone(other.input) # <<>>)

\* Two calls on an AllOf are both between their match and their return,
\* each having matched a stream of its own.
C25_Witness ==
  /\ term.kind = "AllOf"
  /\ pc = "matched"
  /\ other.pc = "matched"
  /\ input # other.input
  /\ matcher.result # other.matcher.result

(***************************************************************************)
(* C26: Match terminates for every finite Term tree and every finite       *)
(* input, also when the operand of a ZeroOrMore, a OneOrMore or an AnyOf   *)
(* can match while consuming zero tokens (`[ a? ]*`, `a? || b`): every     *)
(* repetition loop eventually stops, so no call of Match ever stands in a  *)
(* loop that does not end.                                                 *)
(***************************************************************************)
C26_MatchTerminates ==
  /\ pc # "never"
  /\ matcher.fault # Forever

(***************************************************************************)
(* C27: ParseGrammar terminates, with a Term or an error, on every finite  *)
(* text, also on a text that ends inside a double-quoted literal with no   *)
(* closing quote: neither ParseGrammar nor a lex() it makes ever stands in *)
(* a loop that does not end.                                               *)
(***************************************************************************)
C27_ParseGrammarTerminates ==
  /\ pc # "never"
  /\ lexer.fault = ""

(***************************************************************************)
(* C28: at every entry to and return from match, result holds the first    *)
(* `offset` tokens of the lookahead buffer, 0 <= offset <= len(buffer),    *)
(* and the buffer is a prefix of the input without its whitespace that     *)
(* only ever grows; so the whole-match capture is always a prefix of the   *)
(* input without its whitespace.                                           *)
(***************************************************************************)
Prefix(a, b) == Len(a) <= Len(b) /\ a = SubSeq(b, 1, Len(a))

\* The matcher as observed at an entry or a return of match.
Coherent(o) ==
  /\ 0 <= o.offset
  /\ o.offset <= Len(o.buffer)
  /\ o.result = SubSeq(o.buffer, 1, o.offset)
  /\ Prefix(o.buffer, NonSpace(input))

C28_ResultIsBufferPrefix ==
  /\ \A k \in 1..Len(calls) :
       /\ Coherent(calls[k].pre)
       /\ Coherent(calls[k].post)
       /\ Prefix(calls[k].pre.buffer, calls[k].post.buffer)
       /\ k > 1 => Prefix(calls[k - 1].post.buffer, calls[k].post.buffer)
  /\ (pc = "done" /\ ret # <<>>) =>
       Prefix(ret[Len(ret)].values, NonSpace(input))

\* A match of an input with whitespace has returned captures, and in it a
\* call failed after tokens had been consumed inside it, leaving the buffer
\* ahead of the offset: result had to shrink while the buffer stayed.
C28_Witness ==
  /\ pc = "done"
  /\ ret # <<>>
  /\ ret[Len(ret)].values # <<>>
  /\ Len(NonSpace(input)) < Len(input)
  /\ \E k \in 1..Len(calls) :
       /\ ~calls[k].matched
       /\ \E j \in Inside(k) : calls[j].post.offset > calls[k].pre.offset
       /\ Len(calls[k].post.buffer) > calls[k].post.offset + 1

\* The tokens the calls in the list ch consumed, all together.
RECURSIVE Taken(_)
Taken(ch) ==
  IF ch = <<>> THEN 0
  ELSE (calls[Head(ch)].post.offset - calls[Head(ch)].pre.offset)
         + Taken(Tail(ch))

\* The separator commas call k consumed itself: what it consumed less what
\* its completed repetitions consumed.
Separators(k) ==
  (calls[k].post.offset - calls[k].pre.offset) - Taken(Completed(k))

(***************************************************************************)
(* C29: a comma-separated Repeat that succeeds never consumes a dangling   *)
(* separator: having completed n repetitions it has consumed exactly       *)
(* max(n - 1, 0) separator commas, and what it consumed ends where its     *)
(* last completed repetition ended, never with a comma that no matched     *)
(* operand follows.                                                        *)
(***************************************************************************)
C29_NoDanglingComma ==
  \A k \in 1..Len(calls) :
    (CommaRepeat(k) /\ calls[k].matched) =>
      LET done == Completed(k)
          n == Len(done)
      IN /\ Separators(k) = IF n > 0 THEN n - 1 ELSE 0
         /\ calls[k].post.offset =
              IF n > 0 THEN calls[done[n]].post.offset
              ELSE calls[k].pre.offset

(***************************************************************************)
(* C30: whenever Match returns a list of captures, every token of the      *)
(* input that is not whitespace was consumed: the final anonymous capture  *)
(* holds the whole input without its whitespace and no token is left over  *)
(* (a value with trailing tokens, or a comma-separated list whose later    *)
(* item does not match, is no match).                                      *)
(***************************************************************************)
C30_WholeInputConsumed ==
  (pc = "done" /\ ret # <<>>) =>
    /\ ret[Len(ret)].values = NonSpace(input)
    /\ TokenAt(matcher.offset).type = "ErrorToken"
=============================================================================
